---- MODULE Spec2Model ----
(***************************************************************************)
(* A model of the graph library: the matrix-backed DirectedGraph           *)
(* (directed_graph_search_algos.py), the adjacency-list UndirectedGraph    *)
(* (undirected_graph_search_algos.py) and its explicit-stack twin          *)
(* (ud_graph.py).                                                          *)
(*                                                                         *)
(* Python values are modelled as follows.                                  *)
(*   list            a sequence; Python index i is TLA+ index i + 1        *)
(*   None            the empty tuple << >> where an optional is passed:    *)
(*                   v_end is << >> (None) or <<e>> (the value e)          *)
(*   float('inf')    the integer inf (no real distance is negative)        *)
(*   an exception    the field exc of a result: "" when none was raised    *)
(*   vertex label    undirected labels are the naturals 0..MaxLabel: label *)
(*                   0 is the empty string "", label k > 0 the k-th letter *)
(*                   ("A", "B", ...); < on the naturals is the strings'    *)
(*                   lexicographic order and only "" is falsy              *)
(***************************************************************************)
EXTENDS Integers, Sequences, FiniteSets, TLC

\* ---------------------------------------------------------------- bounds
\* Directed graphs of the mutation specification have at most MaxV vertices
\* and weights up to MaxW, those of the Dijkstra specification at most
\* DijMaxV vertices and weights up to DijMaxW, those of the traversal
\* specifications at most TravMaxV vertices and weights up to TravMaxW.
MaxV == 3
MaxW == 2
DijMaxV == 3
DijMaxW == 3
TravMaxV == 4
TravMaxW == 1
\* The mutation specification of the undirected graph uses the labels
\* 0..MaxLabel, its cycle specifications the labels 1..CycMaxLabel.
\* Those graphs have at most MaxUEdges edges.
MaxLabel == 2
CycMaxLabel == 4
MaxUEdges == 4
\* The traversal specification of the undirected graph uses the labels
\* 0..TravMaxLabel.
TravMaxLabel == 3
\* The path specification has graphs of at most PathMaxV vertices and paths
\* of at most PathMaxLen ids.
PathMaxV == 3
PathMaxLen == 3
\* The round-trip specification has directed graphs of at most RtMaxV
\* vertices.
RtMaxV == 3
\* The boards of the puzzle specification have at most GridMaxRows rows and
\* GridMaxCols columns.
GridMaxRows == 3
GridMaxCols == 3
\* The construction specification passes lists of at most CtorMaxEdges
\* triples with ids up to CtorMaxId and weights up to CtorMaxW.
CtorMaxEdges == 2
CtorMaxId == 2
CtorMaxW == 2
\* The graphs on which the two dfs of the undirected classes are compared
\* have at most TwinMaxEdges edges.
TwinMaxEdges == 3
\* The query specification has directed graphs of at most QryMaxV vertices
\* and calls is_valid_path with lists of at most QryMaxLen elements.
QryMaxV == 3
QryMaxLen == 2

\* v_count, adj_matrix: the fields of the DirectedGraph.
\* adj_list: the field of the UndirectedGraph.
\* call: the public method called last and its arguments.
\* ret: what that call returned (val) or raised (exc); exc is "pending"
\* between the call of a query and its return.
VARIABLES v_count, adj_matrix, adj_list, call, ret

dvars == <<v_count, adj_matrix>>
gvars == <<v_count, adj_matrix, adj_list>>
vars == <<v_count, adj_matrix, adj_list, call, ret>>

\* ------------------------------------------------------- Python helpers
\* float('inf') of dijkstra's visited dictionary.
inf == -1

\* a < b where b may be float('inf') and a is a finite number.
LessThan(a, b) == IF b = inf THEN TRUE ELSE a < b

\* The TLA+ index of Python's list index i into a list of length n; 0 when
\* Python raises IndexError.  Negative indices count from the end.
PyIndex(n, i) ==
    IF 0 <= i /\ i < n THEN i + 1
    ELSE IF i < 0 /\ -i <= n THEN n + i + 1
    ELSE 0

\* x in list
InList(x, list) == \E i \in 1..Len(list) : list[i] = x

\* range(n) as a list
Range(n) == [i \in 1..n |-> i - 1]

\* the truth value of an optional vertex id: None and 0 are falsy
Truthy(opt) == opt # <<>> /\ opt[1] # 0

\* adj_matrix[r][c] for r, c in range
Cell(m, r, c) == m[r + 1][c + 1]

NoCall == [op |-> "init", args |-> <<>>]
NoRet == [exc |-> "", val |-> <<>>]

\* No call is in progress: the library is single-threaded and synchronous.
Idle == ret.exc # "pending"

\* A query is called: its arguments are fixed, its result is to come.
Invoke(op, args) ==
    /\ Idle
    /\ call' = [op |-> op, args |-> args]
    /\ ret' = [exc |-> "pending", val |-> <<>>]
    /\ UNCHANGED gvars

\* The query op has returned or raised.
Returned(op) == call.op = op /\ ret.exc # "pending"

\* ---------------------------------------------------------- DirectedGraph
\* __init__ with start_edges = None
D_Init ==
    /\ v_count = 0
    /\ adj_matrix = <<>>

\* add_vertex: a new row of v_count zeros, then one more cell on every row.
add_vertex(m, n) ==
    LET m1 == Append(m, [x \in 1..n |-> 0])
    IN [i \in 1..Len(m1) |-> Append(m1[i], 0)]

\* self.adj_matrix[src][dst] = weight, with Python's indexing.
SetCell(m, src, dst, weight) ==
    LET r == PyIndex(Len(m), src)
        c == IF r = 0 THEN 0 ELSE PyIndex(Len(m[r]), dst)
    IN IF r = 0 \/ c = 0
       THEN [m |-> m, exc |-> "IndexError"]
       ELSE [m |-> [m EXCEPT ![r][c] = weight], exc |-> ""]

\* add_edge without the negative-weight check.
add_edge_any_weight(m, n, src, dst, weight) ==
    IF ~(0 <= src /\ src < n) \/ ~(0 <= dst /\ dst < n)
    THEN [m |-> m, exc |-> ""]
    ELSE IF src = dst THEN [m |-> m, exc |-> ""]
    ELSE SetCell(m, src, dst, weight)

\* add_edge whose range check forgets the lower bound, so that a negative
\* id indexes the matrix from the end.
add_edge_no_lower_bound(m, n, src, dst, weight) ==
    IF ~(src < n) \/ ~(dst < n)
    THEN [m |-> m, exc |-> ""]
    ELSE IF src = dst THEN [m |-> m, exc |-> ""]
    ELSE IF weight < 0 THEN [m |-> m, exc |-> ""]
    ELSE SetCell(m, src, dst, weight)

add_edge(m, n, src, dst, weight) ==
    IF ~(0 <= src /\ src < n) \/ ~(0 <= dst /\ dst < n)
    THEN [m |-> m, exc |-> ""]
    ELSE IF src = dst THEN [m |-> m, exc |-> ""]
    ELSE IF weight < 0 THEN [m |-> m, exc |-> ""]
    ELSE SetCell(m, src, dst, weight)

\* remove_edge that clears the cell of the opposite direction.
remove_edge_transposed(m, n, src, dst) ==
    IF ~(0 <= src /\ src < n) \/ ~(0 <= dst /\ dst < n)
    THEN [m |-> m, exc |-> ""]
    ELSE IF src = dst THEN [m |-> m, exc |-> ""]
    ELSE SetCell(m, dst, src, 0)

remove_edge(m, n, src, dst) ==
    IF ~(0 <= src /\ src < n) \/ ~(0 <= dst /\ dst < n)
    THEN [m |-> m, exc |-> ""]
    ELSE IF src = dst THEN [m |-> m, exc |-> ""]
    ELSE SetCell(m, src, dst, 0)

get_vertices(n) == Range(n)

D_add_vertex ==
    /\ UNCHANGED adj_list
    /\ adj_matrix' = add_vertex(adj_matrix, v_count)
    /\ v_count' = v_count + 1
    /\ call' = [op |-> "add_vertex", args |-> <<>>]
    /\ ret' = [exc |-> "", val |-> v_count + 1]

D_add_edge(src, dst, weight) ==
    LET r == add_edge(adj_matrix, v_count, src, dst, weight)
    IN /\ adj_matrix' = r.m
       /\ v_count' = v_count
       /\ UNCHANGED adj_list
       /\ call' = [op |-> "add_edge", args |-> <<src, dst, weight>>]
       /\ ret' = [exc |-> r.exc, val |-> <<>>]

D_remove_edge(src, dst) ==
    LET r == remove_edge(adj_matrix, v_count, src, dst)
    IN /\ adj_matrix' = r.m
       /\ v_count' = v_count
       /\ UNCHANGED adj_list
       /\ call' = [op |-> "remove_edge", args |-> <<src, dst>>]
       /\ ret' = [exc |-> r.exc, val |-> <<>>]

\* ------------------------------------------------ specification SpecDG
\* The mutators of DirectedGraph, called with ids one past either end of
\* the vertex range and with weights from -1 to MaxW.
InitDG ==
    /\ D_Init
    /\ adj_list = <<>>
    /\ call = NoCall
    /\ ret = NoRet

NextDG ==
    \/ v_count < MaxV /\ D_add_vertex
    \/ \E src \in -1..v_count, dst \in -1..v_count, weight \in -1..MaxW :
          D_add_edge(src, dst, weight)
    \/ \E src \in -1..v_count, dst \in -1..v_count : D_remove_edge(src, dst)

SpecDG == InitDG /\ [][NextDG]_vars

\* C9: adj_matrix always has exactly v_count rows of exactly v_count cells,
\* every diagonal cell is 0 and no cell holds a negative weight.
C9_WellFormed ==
    /\ Len(adj_matrix) = v_count
    /\ \A r \in 1..Len(adj_matrix) :
          /\ Len(adj_matrix[r]) = v_count
          /\ adj_matrix[r][r] = 0
          /\ \A c \in 1..Len(adj_matrix[r]) : adj_matrix[r][c] >= 0

\* A graph of MaxV vertices with an edge, just after add_edge was called with
\* a negative weight or with src = dst.
C9_Witness ==
    /\ v_count = MaxV
    /\ \E r \in 1..v_count, c \in 1..v_count : adj_matrix[r][c] > 0
    /\ call.op = "add_edge"
    /\ (call.args[3] < 0 \/ call.args[1] = call.args[2])

\* The arguments the mutators reject, against the vertex count n.
RejectedIds(n, src, dst) ==
    \/ src < 0 \/ src >= n
    \/ dst < 0 \/ dst >= n
    \/ src = dst

RejectedCall(n, c) ==
    \/ c.op = "add_edge" /\ (RejectedIds(n, c.args[1], c.args[2]) \/ c.args[3] < 0)
    \/ c.op = "remove_edge" /\ RejectedIds(n, c.args[1], c.args[2])

\* C10: an add_edge or remove_edge call with an out-of-range id (negative
\* ids included), with src = dst or, for add_edge, a negative weight raises
\* no error and leaves v_count and every cell of adj_matrix unchanged.
C10_RejectedNoOp ==
    [][RejectedCall(v_count, call') =>
         /\ ret'.exc = ""
         /\ v_count' = v_count
         /\ adj_matrix' = adj_matrix]_vars

\* A graph with an edge on which add_edge was just called with a negative
\* source id.
C10_Witness ==
    /\ v_count >= 2
    /\ \E r \in 1..v_count, c \in 1..v_count : adj_matrix[r][c] > 0
    /\ call.op = "add_edge"
    /\ call.args[1] < 0
    /\ call.args[2] >= 0 /\ call.args[2] < v_count
    /\ call.args[3] > 0

\* ------------------------------------------------------------- dijkstra
\* heapq compares the entries [priority, task] as lists: by priority, then
\* by task.
EntryLess(a, b) == a[1] < b[1] \/ (a[1] = b[1] /\ a[2] < b[2])

\* The index heappop takes from pq, held here in push order: a least entry
\* (equal entries cannot be told apart).
MinEntry(pq) ==
    CHOOSE i \in 1..Len(pq) :
        \A j \in 1..Len(pq) : ~EntryLess(pq[j], pq[i]) /\ (pq[j] = pq[i] => i <= j)

RemoveAt(list, i) == SubSeq(list, 1, i - 1) \o SubSeq(list, i + 1, Len(list))

\* The relaxation that forgets the distance of the vertex it leaves.
Pushes_edge_weight_only(m, vertex, distance) ==
    LET row == m[vertex + 1]
        cs == SelectSeq(Range(Len(row)), LAMBDA c : row[c + 1] # 0)
    IN [i \in 1..Len(cs) |-> <<row[cs[i] + 1], cs[i]>>]

\* The relaxation whose loop over the columns starts at 1: an edge to the
\* vertex 0 is never followed.
Pushes_from_column_one(m, vertex, distance) ==
    LET row == m[vertex + 1]
        cs == SelectSeq(Range(Len(row)), LAMBDA c : c >= 1 /\ row[c + 1] # 0)
    IN [i \in 1..Len(cs) |-> <<distance + row[cs[i] + 1], cs[i]>>]

\* The add_task calls of one finalised vertex, in the order of the loop over c.
Pushes(m, vertex, distance) ==
    LET row == m[vertex + 1]
        cs == SelectSeq(Range(Len(row)), LAMBDA c : row[c + 1] # 0)
    IN [i \in 1..Len(cs) |-> <<distance + row[cs[i] + 1], cs[i]>>]

RECURSIVE dijkstra_loop(_, _, _)
\* while len(pq) > 0: visited lists the dictionary's values in key order.
dijkstra_loop(m, pq, visited) ==
    IF Len(pq) = 0 THEN [exc |-> "", val |-> visited]
    ELSE LET i == MinEntry(pq)
             distance == pq[i][1]
             vertex == pq[i][2]
             rest == RemoveAt(pq, i)
         IN IF vertex < 0 \/ vertex >= Len(visited)
            THEN [exc |-> "KeyError", val |-> <<>>]
            ELSE IF LessThan(distance, visited[vertex + 1])
            THEN dijkstra_loop(m, rest \o Pushes(m, vertex, distance),
                               [visited EXCEPT ![vertex + 1] = distance])
            ELSE dijkstra_loop(m, rest, visited)

dijkstra(m, n, src) ==
    dijkstra_loop(m, << <<0, src>> >>, [i \in 1..n |-> inf])

D_dijkstra ==
    /\ call.op = "dijkstra" /\ ret.exc = "pending"
    /\ ret' = dijkstra(adj_matrix, v_count, call.args[1])
    /\ UNCHANGED <<gvars, call>>

\* ------------------------------------------------ specification SpecDij
\* Graphs built with in-range ids and positive weights, and dijkstra called
\* on them with a source that may lie one past either end of the range.
NextDij ==
    \/ Idle /\ v_count < DijMaxV /\ D_add_vertex
    \/ \E src \in 0..v_count - 1, dst \in 0..v_count - 1, weight \in 1..DijMaxW :
          Idle /\ D_add_edge(src, dst, weight)
    \/ \E src \in 0..v_count - 1, dst \in 0..v_count - 1 :
          Idle /\ D_remove_edge(src, dst)
    \/ \E src \in -1..v_count : Invoke("dijkstra", <<src>>)
    \/ D_dijkstra

SpecDij == InitDG /\ [][NextDij]_vars

RECURSIVE PathsFrom(_, _, _)
\* Every simple directed path that extends the path p.
PathsFrom(m, n, p) ==
    {p} \cup UNION { PathsFrom(m, n, Append(p, u)) :
                       u \in {x \in 0..n - 1 : Cell(m, p[Len(p)], x) # 0 /\ ~InList(x, p)} }

RECURSIVE PathWeight(_, _)
PathWeight(m, p) ==
    IF Len(p) < 2 THEN 0
    ELSE Cell(m, p[1], p[2]) + PathWeight(m, Tail(p))

SetMin(S) == CHOOSE x \in S : \A y \in S : x <= y

\* The least total weight of a directed path from src to v; inf without one.
MinPathWeight(m, n, src, v) ==
    LET ws == {PathWeight(m, p) : p \in {q \in PathsFrom(m, n, <<src>>) : q[Len(q)] = v}}
    IN IF ws = {} THEN inf ELSE SetMin(ws)

\* C1: dijkstra(src) with src a vertex returns v_count entries, entry v the
\* least total weight of a directed path from src to v: 0 at src, infinity
\* at a vertex no path reaches.
C1_DijkstraShortest ==
    (Returned("dijkstra") /\ call.args[1] >= 0 /\ call.args[1] < v_count) =>
        /\ ret.exc = ""
        /\ Len(ret.val) = v_count
        /\ ret.val[call.args[1] + 1] = 0
        /\ \A v \in 0..v_count - 1 :
              ret.val[v + 1] = MinPathWeight(adj_matrix, v_count, call.args[1], v)

\* dijkstra(0) on three vertices where the detour 0 -> 2 -> 1 (weight 2)
\* beats the edge 0 -> 1 (weight 3), whose queue entry is popped stale.
C1_Witness ==
    /\ Returned("dijkstra") /\ call.args = <<0>>
    /\ v_count = 3
    /\ Cell(adj_matrix, 0, 1) = 3
    /\ Cell(adj_matrix, 0, 2) = 1
    /\ Cell(adj_matrix, 2, 1) = 1
    /\ ret.val = <<0, 2, 1>>

\* ------------------------------------------------------------------ dfs
\* The result of a recursive search is a record: visited (the list the
\* calls share), exc (the exception that ended it) and depth (the greatest
\* number of rec_dfs calls active at once).  stack lists the active calls,
\* each as <<v, len(visited) at its entry>>.  A call that finds itself in
\* stack, same vertex and same visited, repeats its ancestor for ever:
\* Python ends that with RecursionError.
RECURSIVE rec_dfs(_, _, _, _, _)
RECURSIVE rec_dfs_loop(_, _, _, _, _, _)

\* rec_dfs_loop that leaves the loop after its first recursive call.
rec_dfs_loop_first_child(m, st, v, v_end, stack, adj) ==
    IF st.exc # "" THEN st
    ELSE IF adj >= Len(m[v + 1]) THEN st
    ELSE IF Truthy(v_end) /\ InList(v_end[1], st.visited) THEN st
    ELSE IF Cell(m, v, adj) # 0 /\ ~InList(adj, st.visited)
    THEN rec_dfs(m, st, adj, v_end, stack)
    ELSE rec_dfs_loop(m, st, v, v_end, stack, adj + 1)

\* for adj in range(len(self.adj_matrix[v])), from adj on
rec_dfs_loop(m, st, v, v_end, stack, adj) ==
    IF st.exc # "" THEN st
    ELSE IF adj >= Len(m[v + 1]) THEN st
    ELSE IF Truthy(v_end) /\ InList(v_end[1], st.visited) THEN st
    ELSE IF Cell(m, v, adj) # 0 /\ ~InList(adj, st.visited)
    THEN rec_dfs_loop(m, rec_dfs(m, st, adj, v_end, stack), v, v_end, stack, adj + 1)
    ELSE rec_dfs_loop(m, st, v, v_end, stack, adj + 1)

rec_dfs(m, st, v, v_end, stack) ==
    LET me == <<v, Len(st.visited)>>
        appended ==
            IF Truthy(v_end)
            THEN (IF ~InList(v_end[1], st.visited)
                  THEN Append(st.visited, v) ELSE st.visited)
            ELSE IF v_end = <<>> THEN Append(st.visited, v)
            ELSE st.visited
        st1 == [st EXCEPT !.visited = appended,
                          !.depth = IF Len(stack) + 1 > @ THEN Len(stack) + 1 ELSE @]
    IN IF InList(me, stack) THEN [st EXCEPT !.exc = "RecursionError"]
       ELSE rec_dfs_loop(m, st1, v, v_end, Append(stack, me), 0)

dfs(m, n, v_start, v_end) ==
    IF ~InList(v_start, get_vertices(n))
    THEN [visited |-> <<>>, exc |-> "", depth |-> 0]
    ELSE rec_dfs(m, [visited |-> <<>>, exc |-> "", depth |-> 0], v_start, v_end, <<>>)

D_dfs ==
    LET r == dfs(adj_matrix, v_count, call.args[1], call.args[2])
    IN /\ call.op = "dfs" /\ ret.exc = "pending"
       /\ ret' = [exc |-> r.exc, val |-> IF r.exc = "" THEN r.visited ELSE <<>>,
                  depth |-> r.depth]
       /\ UNCHANGED <<gvars, call>>

\* The optional end vertices the searches are called with: None, or an id
\* that may lie one past either end of the vertex range.
Ends(n) == {<<>>} \cup {<<e>> : e \in -1..n}

\* ------------------------------------------------ specification SpecDfs
\* Graphs built with in-range ids, and dfs called on them.
TravMutators ==
    \/ Idle /\ v_count < TravMaxV /\ D_add_vertex
    \/ \E src \in 0..v_count - 1, dst \in 0..v_count - 1, weight \in 1..TravMaxW :
          Idle /\ D_add_edge(src, dst, weight)
    \/ \E src \in 0..v_count - 1, dst \in 0..v_count - 1 :
          Idle /\ D_remove_edge(src, dst)

NextDfs ==
    \/ TravMutators
    \/ \E v_start \in -1..v_count, v_end \in Ends(v_count) :
          Invoke("dfs", <<v_start, v_end>>)
    \/ D_dfs

SpecDfs == InitDG /\ [][NextDfs]_vars

RECURSIVE ReachFrom(_, _, _)
\* The vertices reachable from a vertex of S along nonzero-weight edges.
ReachFrom(m, n, S) ==
    LET T == S \cup {u \in 0..n - 1 : \E x \in S : Cell(m, x, u) # 0}
    IN IF T = S THEN S ELSE ReachFrom(m, n, T)

Reachable(m, n, s) == ReachFrom(m, n, {s})

RECURSIVE PreorderWalk(_, _, _, _)
\* Depth-first preorder by an explicit path: from the last vertex of path
\* enter its least out-neighbour not yet in order, or step back.
PreorderWalk(m, n, order, path) ==
    IF path = <<>> THEN order
    ELSE LET top == path[Len(path)]
             next == {u \in 0..n - 1 : Cell(m, top, u) # 0 /\ ~InList(u, order)}
         IN IF next = {}
            THEN PreorderWalk(m, n, order, SubSeq(path, 1, Len(path) - 1))
            ELSE PreorderWalk(m, n, Append(order, SetMin(next)), Append(path, SetMin(next)))

Preorder(m, n, s) == PreorderWalk(m, n, <<s>>, <<s>>)

NoDuplicates(list) == \A i, j \in 1..Len(list) : list[i] = list[j] => i = j

Elements(list) == {list[i] : i \in 1..Len(list)}

\* The list up to and including the first x; the whole list without x.
PrefixThrough(list, x) ==
    IF InList(x, list)
    THEN SubSeq(list, 1, CHOOSE i \in 1..Len(list) :
                            list[i] = x /\ \A j \in 1..i - 1 : list[j] # x)
    ELSE list

InRange(v) == v >= 0 /\ v < v_count

\* C3: dfs(start) without end, start a vertex: the result starts with start,
\* holds exactly the vertices reachable from start, each once, in depth-first
\* preorder with the out-neighbours entered in ascending id order.
C3_DfsPreorder ==
    (Returned("dfs") /\ InRange(call.args[1]) /\ call.args[2] = <<>>) =>
        /\ ret.exc = ""
        /\ ret.val[1] = call.args[1]
        /\ Elements(ret.val) = Reachable(adj_matrix, v_count, call.args[1])
        /\ NoDuplicates(ret.val)
        /\ ret.val = Preorder(adj_matrix, v_count, call.args[1])

\* dfs(0) on 0 -> 1, 0 -> 2, 1 -> 3, 3 -> 0: vertex 3 is entered before the
\* smaller sibling 2, and the cycle edge 3 -> 0 is not followed.
C3_Witness ==
    /\ Returned("dfs") /\ call.args = <<0, <<>> >>
    /\ v_count = 4
    /\ Cell(adj_matrix, 0, 1) # 0 /\ Cell(adj_matrix, 0, 2) # 0
    /\ Cell(adj_matrix, 1, 3) # 0 /\ Cell(adj_matrix, 3, 0) # 0
    /\ ret.val = <<0, 1, 3, 2>>

\* C2: dfs(start, end) with start and end both vertex ids, 0 included: the
\* prefix of dfs(start) up to and including end when end is reachable from
\* start, dfs(start) itself when it is not.
C2_DfsEndPrefix ==
    (Returned("dfs") /\ InRange(call.args[1]) /\ call.args[2] # <<>>
       /\ InRange(call.args[2][1])) =>
        /\ ret.exc = ""
        /\ ret.val = PrefixThrough(dfs(adj_matrix, v_count, call.args[1], <<>>).visited,
                                   call.args[2][1])
        /\ (call.args[2][1] \in Reachable(adj_matrix, v_count, call.args[1])
              => ret.val[Len(ret.val)] = call.args[2][1])

\* C2 for the end vertices other than 0: what the code does do.
DfsEndPrefixNonzero ==
    (Returned("dfs") /\ InRange(call.args[1]) /\ call.args[2] # <<>>
       /\ InRange(call.args[2][1]) /\ call.args[2][1] # 0) =>
        /\ ret.exc = ""
        /\ ret.val = PrefixThrough(dfs(adj_matrix, v_count, call.args[1], <<>>).visited,
                                   call.args[2][1])

\* ------------------------------------------------------------------ bfs
RECURSIVE bfs_loop_stack(_, _, _, _)
\* bfs_loop that puts the neighbours at the front of the queue.
bfs_loop_stack(m, next_vertex, visited, v_end) ==
    IF Len(next_vertex) = 0 THEN visited
    ELSE LET vertex == Head(next_vertex)
             edges == m[vertex + 1]
             visited1 == IF ~InList(vertex, visited)
                         THEN Append(visited, vertex) ELSE visited
             dsts == SelectSeq(Range(Len(edges)),
                               LAMBDA dst : Cell(m, vertex, dst) # 0 /\ ~InList(dst, visited1))
         IN IF v_end # <<>> /\ vertex = v_end[1] THEN visited1
            ELSE bfs_loop_stack(m, dsts \o Tail(next_vertex), visited1, v_end)

RECURSIVE bfs_loop(_, _, _, _)
\* while len(next_vertex) != 0
bfs_loop(m, next_vertex, visited, v_end) ==
    IF Len(next_vertex) = 0 THEN visited
    ELSE LET vertex == Head(next_vertex)
             edges == m[vertex + 1]
             visited1 == IF ~InList(vertex, visited)
                         THEN Append(visited, vertex) ELSE visited
             dsts == SelectSeq(Range(Len(edges)),
                               LAMBDA dst : Cell(m, vertex, dst) # 0 /\ ~InList(dst, visited1))
         IN IF v_end # <<>> /\ vertex = v_end[1] THEN visited1
            ELSE bfs_loop(m, Tail(next_vertex) \o dsts, visited1, v_end)

bfs(m, n, v_start, v_end) ==
    IF ~InList(v_start, get_vertices(n)) THEN <<>>
    ELSE bfs_loop(m, <<v_start>>, <<>>, v_end)

D_bfs ==
    /\ call.op = "bfs" /\ ret.exc = "pending"
    /\ ret' = [exc |-> "", val |-> bfs(adj_matrix, v_count, call.args[1], call.args[2])]
    /\ UNCHANGED <<gvars, call>>

\* ------------------------------------------------ specification SpecBfs
NextBfs ==
    \/ TravMutators
    \/ \E v_start \in -1..v_count, v_end \in Ends(v_count) :
          Invoke("bfs", <<v_start, v_end>>)
    \/ D_bfs

SpecBfs == InitDG /\ [][NextBfs]_vars

RECURSIVE LevelOrderWalk(_, _, _, _)
\* Level order by discovery: the i-th vertex of order appends its
\* out-neighbours not yet in order, in ascending id order.
LevelOrderWalk(m, n, order, i) ==
    IF i > Len(order) THEN order
    ELSE LET new == SelectSeq(Range(n),
                              LAMBDA u : Cell(m, order[i], u) # 0 /\ ~InList(u, order))
         IN LevelOrderWalk(m, n, order \o new, i + 1)

LevelOrder(m, n, s) == LevelOrderWalk(m, n, <<s>>, 1)

RECURSIVE Within(_, _, _, _)
\* The vertices at most k edges away from s.
Within(m, n, s, k) ==
    IF k = 0 THEN {s}
    ELSE LET W == Within(m, n, s, k - 1)
         IN W \cup {u \in 0..n - 1 : \E x \in W : Cell(m, x, u) # 0}

\* The number of edges of a shortest path from s to the reachable vertex v.
HopDistance(m, n, s, v) == SetMin({k \in 0..n : v \in Within(m, n, s, k)})

\* C4: bfs(start) lists the vertices reachable from start, each once, in
\* non-decreasing hop distance, in the order of discovery with ascending ids
\* among the out-neighbours of one vertex; bfs(start, end) is its prefix up
\* to and including end, and all of it when end is not reachable.
C4_BfsLevelOrder ==
    (Returned("bfs") /\ InRange(call.args[1])) =>
        LET all == bfs(adj_matrix, v_count, call.args[1], <<>>)
        IN /\ ret.exc = ""
           /\ call.args[2] = <<>> =>
                /\ ret.val = LevelOrder(adj_matrix, v_count, call.args[1])
                /\ Elements(ret.val) = Reachable(adj_matrix, v_count, call.args[1])
                /\ NoDuplicates(ret.val)
                /\ \A i, j \in 1..Len(ret.val) :
                      i <= j => HopDistance(adj_matrix, v_count, call.args[1], ret.val[i])
                                  <= HopDistance(adj_matrix, v_count, call.args[1], ret.val[j])
           /\ call.args[2] # <<>> =>
                /\ ret.val = PrefixThrough(all, call.args[2][1])
                /\ (call.args[2][1] \in Reachable(adj_matrix, v_count, call.args[1])
                      => ret.val[Len(ret.val)] = call.args[2][1])
                /\ (call.args[2][1] \notin Reachable(adj_matrix, v_count, call.args[1])
                      => ret.val = all)

\* bfs(0, 2) on 0 -> 1, 0 -> 2, 1 -> 3, 3 -> 0: the sibling 2 comes before
\* the deeper vertex 3, and the search stops at the end vertex 2.
C4_Witness ==
    /\ Returned("bfs") /\ call.args = <<0, <<2>> >>
    /\ v_count = 4
    /\ Cell(adj_matrix, 0, 1) # 0 /\ Cell(adj_matrix, 0, 2) # 0
    /\ Cell(adj_matrix, 1, 3) # 0 /\ Cell(adj_matrix, 3, 0) # 0
    /\ ret.val = <<0, 1, 2>>

\* ------------------------------------------------------------ has_cycle
\* The state of the search: visited and path (one flag per vertex) and
\* found, the value the call returns.
RECURSIVE cycle_rec_dfs(_, _, _)
RECURSIVE cycle_rec_loop(_, _, _, _)

\* cycle_rec_loop that leaves the vertex on the path when it backs out.
cycle_rec_loop_no_backtrack(m, st, v, adj) ==
    IF adj >= Len(m[v + 1])
    THEN [st EXCEPT !.found = FALSE]
    ELSE IF Cell(m, v, adj) # 0
    THEN IF ~st.visited[adj + 1]
         THEN LET r == cycle_rec_dfs(m, st, adj)
              IN IF r.found THEN r ELSE cycle_rec_loop(m, r, v, adj + 1)
         ELSE IF st.path[adj + 1] THEN [st EXCEPT !.found = TRUE]
         ELSE cycle_rec_loop(m, st, v, adj + 1)
    ELSE cycle_rec_loop(m, st, v, adj + 1)

\* for adj in range(len(self.adj_matrix[v])), from adj on; the back track
\* after the loop.
cycle_rec_loop(m, st, v, adj) ==
    IF adj >= Len(m[v + 1])
    THEN [st EXCEPT !.path[v + 1] = FALSE, !.found = FALSE]
    ELSE IF Cell(m, v, adj) # 0
    THEN IF ~st.visited[adj + 1]
         THEN LET r == cycle_rec_dfs(m, st, adj)
              IN IF r.found THEN r ELSE cycle_rec_loop(m, r, v, adj + 1)
         ELSE IF st.path[adj + 1] THEN [st EXCEPT !.found = TRUE]
         ELSE cycle_rec_loop(m, st, v, adj + 1)
    ELSE cycle_rec_loop(m, st, v, adj + 1)

cycle_rec_dfs(m, st, v) ==
    cycle_rec_loop(m, [st EXCEPT !.visited[v + 1] = TRUE, !.path[v + 1] = TRUE], v, 0)

RECURSIVE has_cycle_roots(_, _, _)
\* for vertex in vertices, from vertex on.  The flag "empty" the loop
\* computes is read nowhere and is left out.
has_cycle_roots(m, st, vertex) ==
    IF vertex >= Len(st.visited) THEN FALSE
    ELSE IF st.visited[vertex + 1] THEN has_cycle_roots(m, st, vertex + 1)
    ELSE LET r == cycle_rec_dfs(m, st, vertex)
         IN IF r.found THEN TRUE ELSE has_cycle_roots(m, r, vertex + 1)

has_cycle(m, n) ==
    has_cycle_roots(m, [visited |-> [i \in 1..n |-> FALSE],
                        path |-> [i \in 1..n |-> FALSE],
                        found |-> FALSE], 0)

D_has_cycle ==
    /\ call.op = "has_cycle" /\ ret.exc = "pending"
    /\ ret' = [exc |-> "", val |-> has_cycle(adj_matrix, v_count)]
    /\ UNCHANGED <<gvars, call>>

\* ------------------------------------------------ specification SpecCyc
NextCyc ==
    \/ TravMutators
    \/ Invoke("has_cycle", <<>>)
    \/ D_has_cycle

SpecCyc == InitDG /\ [][NextCyc]_vars

\* Some vertex is reachable from one of its own out-neighbours.
HasDirectedCycle(m, n) ==
    \E v \in 0..n - 1, u \in 0..n - 1 : Cell(m, v, u) # 0 /\ v \in Reachable(m, n, u)

\* C5: has_cycle() returns True exactly when the graph has a directed cycle
\* of nonzero-weight edges, 2-cycles included: False on the empty graph and
\* on a DAG that reaches a vertex by two paths.
C5_HasCycleExact ==
    Returned("has_cycle") =>
        /\ ret.exc = ""
        /\ ret.val = HasDirectedCycle(adj_matrix, v_count)

\* has_cycle() returned False on the diamond 0 -> 1, 0 -> 2, 1 -> 3, 2 -> 3,
\* where vertex 3 is met a second time, off the path.
C5_Witness ==
    /\ Returned("has_cycle")
    /\ v_count = 4
    /\ \A r \in 0..3, c \in 0..3 :
          Cell(adj_matrix, r, c) # 0 <=> <<r, c>> \in {<<0, 1>>, <<0, 2>>, <<1, 3>>, <<2, 3>>}
    /\ ret.val = FALSE

\* ======================================================= UndirectedGraph
\* adj_list is the dictionary in insertion order: a list of pairs
\* <<label, neighbour list>>.  The mutators of ud_graph.py (lines 45-91)
\* are, statement for statement, those of undirected_graph_search_algos.py
\* modelled here.

\* v in self.adj_list
HasKey(adj, v) == \E i \in 1..Len(adj) : adj[i][1] = v

KeyIndex(adj, v) == CHOOSE i \in 1..Len(adj) : adj[i][1] = v

\* self.adj_list[v], v a key
Get(adj, v) == adj[KeyIndex(adj, v)][2]

\* self.adj_list[v] = list, v a key
Put(adj, v, list) == [adj EXCEPT ![KeyIndex(adj, v)][2] = list]

\* [*self.adj_list]
Keys(adj) == [i \in 1..Len(adj) |-> adj[i][1]]

\* list.remove(x), x in list: the first x goes
ListRemove(list, x) ==
    LET i == CHOOSE k \in 1..Len(list) : list[k] = x /\ \A j \in 1..k - 1 : list[j] # x
    IN RemoveAt(list, i)

U_Init == adj_list = <<>>

u_add_vertex(adj, v) ==
    IF HasKey(adj, v) THEN adj ELSE Append(adj, <<v, <<>> >>)

\* add_edge that records the edge on the list of v only.
u_add_edge_one_way(adj, u, v) ==
    IF u = v THEN adj
    ELSE LET a1 == IF ~HasKey(adj, u) THEN u_add_vertex(adj, u) ELSE adj
             a2 == IF ~HasKey(a1, v) THEN u_add_vertex(a1, v) ELSE a1
         IN IF ~InList(u, Get(a2, v)) THEN Put(a2, v, Append(Get(a2, v), u)) ELSE a2

u_add_edge(adj, u, v) ==
    IF u = v THEN adj
    ELSE LET a1 == IF ~HasKey(adj, u) THEN u_add_vertex(adj, u) ELSE adj
             a2 == IF ~HasKey(a1, v) THEN u_add_vertex(a1, v) ELSE a1
             a3 == IF ~InList(u, Get(a2, v))
                   THEN Put(a2, v, Append(Get(a2, v), u)) ELSE a2
         IN IF ~InList(v, Get(a3, u)) THEN Put(a3, u, Append(Get(a3, u), v)) ELSE a3

\* remove_edge(self, v, u)
u_remove_edge(adj, v, u) ==
    IF u = v THEN adj
    ELSE LET a1 == IF HasKey(adj, u) /\ InList(v, Get(adj, u))
                   THEN Put(adj, u, ListRemove(Get(adj, u), v)) ELSE adj
         IN IF HasKey(a1, v) /\ InList(u, Get(a1, v))
            THEN Put(a1, v, ListRemove(Get(a1, v), u)) ELSE a1

RECURSIVE u_remove_from(_, _, _)
\* for edge in edges: self.adj_list[edge].remove(v)
u_remove_from(r, edges, v) ==
    IF r.exc # "" \/ Len(edges) = 0 THEN r
    ELSE IF ~HasKey(r.adj, Head(edges)) THEN [r EXCEPT !.exc = "KeyError"]
    ELSE IF ~InList(v, Get(r.adj, Head(edges))) THEN [r EXCEPT !.exc = "ValueError"]
    ELSE u_remove_from([r EXCEPT !.adj = Put(r.adj, Head(edges),
                                             ListRemove(Get(r.adj, Head(edges)), v))],
                       Tail(edges), v)

u_remove_vertex(adj, v) ==
    IF HasKey(adj, v)
    THEN u_remove_from([adj |-> RemoveAt(adj, KeyIndex(adj, v)), exc |-> ""],
                       Get(adj, v), v)
    ELSE [adj |-> adj, exc |-> ""]

U_add_vertex(v) ==
    /\ adj_list' = u_add_vertex(adj_list, v)
    /\ call' = [op |-> "add_vertex", args |-> <<v>>]
    /\ ret' = NoRet
    /\ UNCHANGED dvars

U_add_edge(u, v) ==
    /\ adj_list' = u_add_edge(adj_list, u, v)
    /\ call' = [op |-> "add_edge", args |-> <<u, v>>]
    /\ ret' = NoRet
    /\ UNCHANGED dvars

U_remove_edge(v, u) ==
    /\ adj_list' = u_remove_edge(adj_list, v, u)
    /\ call' = [op |-> "remove_edge", args |-> <<v, u>>]
    /\ ret' = NoRet
    /\ UNCHANGED dvars

U_remove_vertex(v) ==
    LET r == u_remove_vertex(adj_list, v)
    IN /\ adj_list' = r.adj
       /\ call' = [op |-> "remove_vertex", args |-> <<v>>]
       /\ ret' = [exc |-> r.exc, val |-> <<>>]
       /\ UNCHANGED dvars

\* ------------------------------------------------- specification SpecUG
\* The mutators of UndirectedGraph, called with every label of 0..MaxLabel,
\* present in the graph or not.
InitUG ==
    /\ D_Init
    /\ U_Init
    /\ call = NoCall
    /\ ret = NoRet

Labels == 0..MaxLabel

NextUG ==
    \/ \E v \in Labels : U_add_vertex(v)
    \/ \E u \in Labels, v \in Labels : U_add_edge(u, v)
    \/ \E v \in Labels, u \in Labels : U_remove_edge(v, u)
    \/ \E v \in Labels : U_remove_vertex(v)

SpecUG == InitUG /\ [][NextUG]_vars

\* v is in the neighbour list of u, u a vertex
Neighbour(adj, u, v) == HasKey(adj, u) /\ InList(v, Get(adj, u))

\* C8: v is in the neighbour list of u exactly when u is in that of v, so
\* every listed neighbour is a vertex and an absent (removed) label is in
\* no list; no mutator raises.
C8_Symmetry ==
    /\ ret.exc = ""
    /\ \A i \in 1..Len(adj_list) : \A k \in 1..Len(adj_list[i][2]) :
          /\ HasKey(adj_list, adj_list[i][2][k])
          /\ InList(adj_list[i][1], Get(adj_list, adj_list[i][2][k]))

\* remove_vertex has just been called with a label that is now absent, and
\* the two vertices that remain are joined by an edge.
C8_Witness ==
    /\ call.op = "remove_vertex"
    /\ Len(adj_list) = 2
    /\ ~HasKey(adj_list, call.args[1])
    /\ \A i \in 1..2 : Len(adj_list[i][2]) = 1

\* --------------------------- has_cycle, undirected_graph_search_algos.py
\* The state of the search: visited (the labels whose flag is True), found
\* (the value the call returns) and exc.
RECURSIVE u_rec_dfs(_, _, _, _)
RECURSIVE u_rec_loop(_, _, _, _, _)

\* u_rec_loop that takes the way back to the parent for a back edge too.
u_rec_loop_no_parent(adj, st, parent, v, i) ==
    IF st.exc # "" THEN st
    ELSE IF i > Len(Get(adj, v)) THEN [st EXCEPT !.found = FALSE]
    ELSE LET a == Get(adj, v)[i]
         IN IF ~HasKey(adj, a) THEN [st EXCEPT !.exc = "KeyError"]
            ELSE IF a \notin st.visited
            THEN LET r == u_rec_dfs(adj, st, <<v>>, a)
                 IN IF r.found \/ r.exc # "" THEN r
                    ELSE u_rec_loop(adj, r, parent, v, i + 1)
            ELSE [st EXCEPT !.found = TRUE]

\* for adj in self.adj_list[v], from the i-th neighbour on
u_rec_loop(adj, st, parent, v, i) ==
    IF st.exc # "" THEN st
    ELSE IF i > Len(Get(adj, v)) THEN [st EXCEPT !.found = FALSE]
    ELSE LET a == Get(adj, v)[i]
         IN IF ~HasKey(adj, a) THEN [st EXCEPT !.exc = "KeyError"]
            ELSE IF a \notin st.visited
            THEN LET r == u_rec_dfs(adj, st, <<v>>, a)
                 IN IF r.found \/ r.exc # "" THEN r
                    ELSE u_rec_loop(adj, r, parent, v, i + 1)
            ELSE IF parent = <<>> \/ a # parent[1] THEN [st EXCEPT !.found = TRUE]
            ELSE u_rec_loop(adj, st, parent, v, i + 1)

u_rec_dfs(adj, st, parent, v) ==
    u_rec_loop(adj, [st EXCEPT !.visited = @ \cup {v}], parent, v, 1)

RECURSIVE u_has_cycle_roots(_, _, _)
\* for vertex in vertices, from the i-th key on
u_has_cycle_roots(adj, st, i) ==
    IF i > Len(adj) THEN [st EXCEPT !.found = FALSE]
    ELSE IF Len(adj[i][2]) = 0 THEN u_has_cycle_roots(adj, st, i + 1)
    ELSE IF adj[i][1] \in st.visited THEN u_has_cycle_roots(adj, st, i + 1)
    ELSE LET r == u_rec_dfs(adj, st, <<>>, adj[i][1])
         IN IF r.found \/ r.exc # "" THEN r
            ELSE u_has_cycle_roots(adj, r, i + 1)

u_has_cycle(adj) ==
    u_has_cycle_roots(adj, [visited |-> {}, found |-> FALSE, exc |-> ""], 1)

U_has_cycle ==
    LET r == u_has_cycle(adj_list)
    IN /\ call.op = "has_cycle" /\ ret.exc = "pending"
       /\ ret' = [exc |-> r.exc, val |-> r.found]
       /\ UNCHANGED <<gvars, call>>

\* ---------------------------------------------- specification SpecUCyc
CycLabels == 1..CycMaxLabel

\* The edges of the graph, as two-element sets.
EdgeSet(adj) ==
    UNION {{{adj[i][1], adj[i][2][k]} : k \in 1..Len(adj[i][2])} : i \in 1..Len(adj)}

\* add_edge(u, v) keeps the graph within MaxUEdges edges.
WithinEdges(u, v) ==
    u = v \/ Cardinality(EdgeSet(adj_list) \cup {{u, v}}) <= MaxUEdges

NextUCyc ==
    \/ \E v \in CycLabels : Idle /\ U_add_vertex(v)
    \/ \E u \in CycLabels, v \in CycLabels :
          Idle /\ WithinEdges(u, v) /\ U_add_edge(u, v)
    \/ \E v \in CycLabels, u \in CycLabels : Idle /\ U_remove_edge(v, u)
    \/ \E v \in CycLabels : Idle /\ U_remove_vertex(v)
    \/ Invoke("has_cycle", <<>>)
    \/ U_has_cycle

SpecUCyc == InitUG /\ [][NextUCyc]_vars

RECURSIVE Joined(_, _)
\* The labels joined to a label of S by a chain of the edges E.
Joined(E, S) ==
    LET T == S \cup UNION {e \in E : e \cap S # {}}
    IN IF T = S THEN S ELSE Joined(E, T)

\* Some edge joins two vertices that the other edges join as well: the edge
\* closes a ring of three or more distinct vertices.
HasRing(adj) ==
    \E e \in EdgeSet(adj) : \E u \in e : e \subseteq Joined(EdgeSet(adj) \ {e}, {u})

\* C6: has_cycle() of undirected_graph_search_algos.py returns True exactly
\* when the graph has a cycle: False on the empty graph and on every forest.
C6_UHasCycleExact ==
    Returned("has_cycle") =>
        /\ ret.exc = ""
        /\ ret.val = HasRing(adj_list)

\* has_cycle() returned True on a graph of four vertices and four edges
\* whose first vertex hangs off a triangle.
C6_Witness ==
    /\ Returned("has_cycle")
    /\ Len(adj_list) = 4
    /\ Cardinality(EdgeSet(adj_list)) = 4
    /\ Len(adj_list[1][2]) = 1
    /\ ret.val = TRUE

\* has_cycle() returned False on a tree of four vertices.
UHasCycleTree ==
    /\ Returned("has_cycle")
    /\ Len(adj_list) = 4
    /\ Cardinality(EdgeSet(adj_list)) = 3
    /\ \A i \in 1..4 : Len(adj_list[i][2]) >= 1
    /\ ret.val = FALSE

\* ------------------------------------------------ has_cycle, ud_graph.py
RECURSIVE Sort(_)
\* list.sort(): ascending
Sort(list) ==
    IF Len(list) = 0 THEN <<>>
    ELSE LET least == SetMin(Elements(list))
         IN <<least>> \o Sort(ListRemove(list, least))

RECURSIVE cycle_dfs_loop(_)
\* while len(next_vertex) != 0, on the locals of cycle_dfs and the graph
\* (edges.sort() sorts the stored neighbour list).
cycle_dfs_loop(st) ==
    IF st.exc # "" \/ Len(st.next_vertex) = 0 THEN st
    ELSE LET vertex == st.vertex
             seen == InList(vertex, st.result)
             result == IF seen THEN st.result ELSE Append(st.result, vertex)
             last == st.result[PyIndex(Len(st.result), -1)]
             compare == seen /\ ~st.backtrack /\ vertex # last
             cycle == IF compare /\ PyIndex(Len(st.result), -2) # 0
                         /\ vertex # st.result[PyIndex(Len(st.result), -2)]
                      THEN TRUE ELSE st.cycle
             edges == Sort(Get(st.adj, vertex))
             adj == Put(st.adj, vertex, edges)
             fresh == SelectSeq(edges, LAMBDA edge : ~InList(edge, result))
         IN IF compare /\ PyIndex(Len(st.result), -2) = 0
            THEN [st EXCEPT !.exc = "IndexError"]
            ELSE IF Len(fresh) > 0
            THEN cycle_dfs_loop([st EXCEPT !.adj = adj, !.result = result, !.cycle = cycle,
                                           !.next_vertex = Append(@, vertex),
                                           !.vertex = fresh[1],
                                           !.backtrack = FALSE])
            ELSE cycle_dfs_loop([st EXCEPT !.adj = adj, !.result = result, !.cycle = cycle,
                                           !.next_vertex = SubSeq(@, 1, Len(@) - 1),
                                           !.vertex = st.next_vertex[Len(st.next_vertex)],
                                           !.backtrack = TRUE])

cycle_dfs(adj, v_start) ==
    IF ~HasKey(adj, v_start)
    THEN [adj |-> adj, result |-> <<>>, cycle |-> FALSE, backtrack |-> FALSE,
          next_vertex |-> <<>>, vertex |-> v_start, exc |-> ""]
    ELSE cycle_dfs_loop([adj |-> adj, result |-> <<>>, cycle |-> FALSE,
                         backtrack |-> FALSE, next_vertex |-> <<v_start>>,
                         vertex |-> v_start, exc |-> ""])

RECURSIVE RemoveAll(_, _)
\* for component in connection: vertices.remove(component)
RemoveAll(r, connection) ==
    IF r.exc # "" \/ Len(connection) = 0 THEN r
    ELSE IF ~InList(Head(connection), r.list) THEN [r EXCEPT !.exc = "ValueError"]
    ELSE RemoveAll([r EXCEPT !.list = ListRemove(@, Head(connection))], Tail(connection))

RECURSIVE ud_has_cycle_loop(_)
\* while len(vertices) > 0
ud_has_cycle_loop(st) ==
    IF st.exc # "" \/ Len(st.vertices) = 0 THEN st
    ELSE LET vertex == st.vertices[1]
         IN IF Len(Get(st.adj, vertex)) = 0
            THEN ud_has_cycle_loop([st EXCEPT !.vertices = ListRemove(@, vertex)])
            ELSE LET r == cycle_dfs(st.adj, vertex)
                     rest == RemoveAll([list |-> st.vertices, exc |-> r.exc], r.result)
                 IN ud_has_cycle_loop([adj |-> r.adj,
                                       vertices |-> rest.list,
                                       cycle |-> IF r.cycle THEN TRUE ELSE st.cycle,
                                       exc |-> rest.exc])

ud_has_cycle(adj) ==
    ud_has_cycle_loop([adj |-> adj, vertices |-> Keys(adj), cycle |-> FALSE, exc |-> ""])

Ud_add_edge(u, v) == U_add_edge(u, v)

Ud_remove_edge(v, u) == U_remove_edge(v, u)

Ud_has_cycle ==
    LET r == ud_has_cycle(adj_list)
    IN /\ call.op = "has_cycle" /\ ret.exc = "pending"
       /\ adj_list' = r.adj
       /\ ret' = [exc |-> r.exc, val |-> r.cycle]
       /\ UNCHANGED <<dvars, call>>

\* --------------------------------------------- specification SpecUdCyc
\* Graphs built by the add_edge and remove_edge of ud_graph.py, and its
\* has_cycle called on them.
NextUdCyc ==
    \/ \E u \in CycLabels, v \in CycLabels :
          Idle /\ WithinEdges(u, v) /\ Ud_add_edge(u, v)
    \/ \E v \in CycLabels, u \in CycLabels : Idle /\ Ud_remove_edge(v, u)
    \/ Invoke("has_cycle", <<>>)
    \/ Ud_has_cycle

SpecUdCyc == InitUG /\ [][NextUdCyc]_vars

\* C7: has_cycle() of ud_graph.py returns True if the graph contains a cycle
\* and False otherwise; True on the triangle A-B, B-C, A-C.
C7_UdHasCycleExact ==
    Returned("has_cycle") =>
        /\ ret.exc = ""
        /\ ret.val = HasRing(adj_list)

\* What the code does: has_cycle() of ud_graph.py never returns True.
UdHasCycleNeverTrue ==
    Returned("has_cycle") => (ret.exc = "" /\ ret.val = FALSE)

\* ----------------------------------- dfs, undirected_graph_search_algos.py
\* The result of the recursive search is a record: adj (the graph, whose
\* neighbour lists the search sorts), visited, exc and depth (the greatest
\* number of rec_dfs calls active at once).  stack lists the active calls,
\* each as <<v, len(visited), graph at its entry>>: a call that finds itself
\* in stack repeats its ancestor for ever (RecursionError).
RECURSIVE u_dfs_rec_dfs(_, _, _, _)
RECURSIVE u_dfs_rec_loop(_, _, _, _, _)

\* u_dfs_rec_loop that goes on to the next neighbour after the end was found.
u_dfs_rec_loop_no_break(st, v, v_end, stack, i) ==
    IF st.exc # "" THEN st
    ELSE IF i > Len(Get(st.adj, v)) THEN st
    ELSE LET a == Get(st.adj, v)[i]
         IN IF ~InList(a, st.visited)
            THEN IF ~HasKey(st.adj, a) THEN [st EXCEPT !.exc = "KeyError"]
                 ELSE u_dfs_rec_loop(u_dfs_rec_dfs(st, a, v_end, stack),
                                     v, v_end, stack, i + 1)
            ELSE u_dfs_rec_loop(st, v, v_end, stack, i + 1)

\* for adj in self.adj_list[v], from the i-th neighbour on
u_dfs_rec_loop(st, v, v_end, stack, i) ==
    IF st.exc # "" THEN st
    ELSE IF i > Len(Get(st.adj, v)) THEN st
    ELSE LET a == Get(st.adj, v)[i]
         IN IF Truthy(v_end) /\ InList(v_end[1], st.visited) THEN st
            ELSE IF ~InList(a, st.visited)
            THEN IF ~HasKey(st.adj, a) THEN [st EXCEPT !.exc = "KeyError"]
                 ELSE u_dfs_rec_loop(u_dfs_rec_dfs(st, a, v_end, stack),
                                     v, v_end, stack, i + 1)
            ELSE u_dfs_rec_loop(st, v, v_end, stack, i + 1)

u_dfs_rec_dfs(st, v, v_end, stack) ==
    LET me == <<v, Len(st.visited), st.adj>>
        appended ==
            IF Truthy(v_end)
            THEN (IF ~InList(v_end[1], st.visited)
                  THEN Append(st.visited, v) ELSE st.visited)
            ELSE IF v_end = <<>> THEN Append(st.visited, v)
            ELSE st.visited
        st1 == [st EXCEPT !.visited = appended,
                          !.adj = Put(@, v, Sort(Get(@, v))),
                          !.depth = IF Len(stack) + 1 > @ THEN Len(stack) + 1 ELSE @]
    IN IF InList(me, stack) THEN [st EXCEPT !.exc = "RecursionError"]
       ELSE u_dfs_rec_loop(st1, v, v_end, Append(stack, me), 1)

u_dfs(adj, v_start, v_end) ==
    IF ~InList(v_start, Keys(adj))
    THEN [adj |-> adj, visited |-> <<>>, exc |-> "", depth |-> 0]
    ELSE u_dfs_rec_dfs([adj |-> adj, visited |-> <<>>, exc |-> "", depth |-> 0],
                       v_start, v_end, <<>>)

U_dfs ==
    LET r == u_dfs(adj_list, call.args[1], call.args[2])
    IN /\ call.op = "dfs" /\ ret.exc = "pending"
       /\ adj_list' = r.adj
       /\ ret' = [exc |-> r.exc, val |-> IF r.exc = "" THEN r.visited ELSE <<>>,
                  depth |-> r.depth]
       /\ UNCHANGED <<dvars, call>>

\* ----------------------------------- bfs, undirected_graph_search_algos.py
RECURSIVE u_bfs_loop(_, _)
\* u_bfs_loop that takes the vertex entered last from next_vertex.
u_bfs_loop_stack(st, v_end) ==
    IF Len(st.next_vertex) = 0 THEN st
    ELSE LET vertex == st.next_vertex[Len(st.next_vertex)]
             visited == IF ~InList(vertex, st.visited)
                        THEN Append(st.visited, vertex) ELSE st.visited
             edges == Sort(Get(st.adj, vertex))
             items == SelectSeq(edges, LAMBDA item : ~InList(item, visited))
         IN IF v_end # <<>> /\ vertex = v_end[1]
            THEN [st EXCEPT !.visited = visited]
            ELSE u_bfs_loop([adj |-> Put(st.adj, vertex, edges),
                             visited |-> visited,
                             next_vertex |-> SubSeq(st.next_vertex, 1,
                                                    Len(st.next_vertex) - 1) \o items],
                            v_end)

\* u_bfs_loop that filters the stored neighbour list itself: the visited
\* neighbours are dropped from the graph.
u_bfs_loop_consuming(st, v_end) ==
    IF Len(st.next_vertex) = 0 THEN st
    ELSE LET vertex == Head(st.next_vertex)
             visited == IF ~InList(vertex, st.visited)
                        THEN Append(st.visited, vertex) ELSE st.visited
             edges == Sort(Get(st.adj, vertex))
             items == SelectSeq(edges, LAMBDA item : ~InList(item, visited))
         IN IF v_end # <<>> /\ vertex = v_end[1]
            THEN [st EXCEPT !.visited = visited]
            ELSE u_bfs_loop([adj |-> Put(st.adj, vertex, items),
                             visited |-> visited,
                             next_vertex |-> Tail(st.next_vertex) \o items],
                            v_end)

\* while len(next_vertex) != 0
u_bfs_loop(st, v_end) ==
    IF Len(st.next_vertex) = 0 THEN st
    ELSE LET vertex == Head(st.next_vertex)
             visited == IF ~InList(vertex, st.visited)
                        THEN Append(st.visited, vertex) ELSE st.visited
             edges == Sort(Get(st.adj, vertex))
             items == SelectSeq(edges, LAMBDA item : ~InList(item, visited))
         IN IF v_end # <<>> /\ vertex = v_end[1]
            THEN [st EXCEPT !.visited = visited]
            ELSE u_bfs_loop([adj |-> Put(st.adj, vertex, edges),
                             visited |-> visited,
                             next_vertex |-> Tail(st.next_vertex) \o items],
                            v_end)

u_bfs(adj, v_start, v_end) ==
    IF ~HasKey(adj, v_start)
    THEN [adj |-> adj, visited |-> <<>>, next_vertex |-> <<>>]
    ELSE u_bfs_loop([adj |-> adj, visited |-> <<>>, next_vertex |-> <<v_start>>], v_end)

U_bfs ==
    LET r == u_bfs(adj_list, call.args[1], call.args[2])
    IN /\ call.op = "bfs" /\ ret.exc = "pending"
       /\ adj_list' = r.adj
       /\ ret' = [exc |-> "", val |-> r.visited]
       /\ UNCHANGED <<dvars, call>>

\* --------------------------------------------- specification SpecUTrav
\* Graphs over the labels 0..TravMaxLabel ("" and letters) built by add_edge
\* and remove_edge, called with the smaller label first (the edges have no
\* direction, and neighbour lists still come out unsorted), and dfs and bfs
\* called on them with a start that may be absent and with no end or any
\* label as end.
TravLabels == 0..TravMaxLabel

UEnds == {<<>>} \cup {<<e>> : e \in TravLabels}

NextUTrav ==
    \/ \E u \in TravLabels, v \in TravLabels :
          Idle /\ u < v /\ WithinEdges(u, v) /\ U_add_edge(u, v)
    \/ \E v \in TravLabels, u \in TravLabels : Idle /\ v < u /\ U_remove_edge(v, u)
    \/ \E v_start \in TravLabels, v_end \in UEnds : Invoke("dfs", <<v_start, v_end>>)
    \/ U_dfs
    \/ \E v_start \in TravLabels, v_end \in UEnds : Invoke("bfs", <<v_start, v_end>>)
    \/ U_bfs

SpecUTrav == InitUG /\ [][NextUTrav]_vars

\* --------------------------------------------------- absent start vertex
\* C11: a query called with a start that is not a vertex returns an empty
\* result and raises nothing; here for dijkstra(src), src outside
\* 0..v_count-1.
C11_AbsentStartEmpty ==
    (Returned("dijkstra") /\ ~InRange(call.args[1])) =>
        /\ ret.exc = ""
        /\ ret.val = <<>>

\* What dijkstra does with a source that is not a vertex: KeyError.
DijkstraAbsentSrcRaises ==
    (Returned("dijkstra") /\ ~InRange(call.args[1])) => ret.exc = "KeyError"

\* C11 for the directed dfs: an absent start gives [] and no error.
DfsAbsentStartEmpty ==
    (Returned("dfs") /\ ~InRange(call.args[1])) => (ret.exc = "" /\ ret.val = <<>>)

\* C11 for the directed bfs.
BfsAbsentStartEmpty ==
    (Returned("bfs") /\ ~InRange(call.args[1])) => (ret.exc = "" /\ ret.val = <<>>)

\* C11 for the undirected dfs and bfs.
UTravAbsentStartEmpty ==
    ((Returned("dfs") \/ Returned("bfs")) /\ ~HasKey(adj_list, call.args[1])) =>
        (ret.exc = "" /\ ret.val = <<>>)

\* -------------------------------------------------------- is_valid_path
\* self.adj_matrix[src][dst] read with Python's indexing.
ReadCell(m, src, dst) ==
    LET r == PyIndex(Len(m), src)
        c == IF r = 0 THEN 0 ELSE PyIndex(Len(m[r]), dst)
    IN IF r = 0 \/ c = 0
       THEN [exc |-> "IndexError", val |-> 0]
       ELSE [exc |-> "", val |-> m[r][c]]

RECURSIVE is_valid_path_loop(_, _, _, _, _)
\* for i in range(2, size), from i on, and the test after the loop
is_valid_path_loop(m, path, src, dst, i) ==
    LET cell == ReadCell(m, src, dst)
    IN IF cell.exc # "" THEN [exc |-> cell.exc, val |-> <<>>]
       ELSE IF cell.val = 0 THEN [exc |-> "", val |-> FALSE]
       ELSE IF i >= Len(path) THEN [exc |-> "", val |-> TRUE]
       ELSE is_valid_path_loop(m, path, dst, path[i + 1], i + 1)

is_valid_path(m, n, path) ==
    IF Len(path) = 0 THEN [exc |-> "", val |-> TRUE]
    ELSE IF Len(path) = 1 THEN [exc |-> "", val |-> path[1] < n]
    ELSE is_valid_path_loop(m, path, path[1], path[2], 2)

D_is_valid_path ==
    /\ call.op = "is_valid_path" /\ ret.exc = "pending"
    /\ ret' = is_valid_path(adj_matrix, v_count, call.args[1])
    /\ UNCHANGED <<gvars, call>>

\* ----------------------------------------------- specification SpecPath
\* Graphs of at most PathMaxV vertices built with in-range ids, and
\* is_valid_path called on them with every list of at most PathMaxLen ids
\* that may lie one past either end of the vertex range.
RECURSIVE ListsOver(_, _)
\* The lists of at most k elements of S.
ListsOver(S, k) ==
    IF k = 0 THEN {<<>>}
    ELSE LET shorter == ListsOver(S, k - 1)
         IN shorter \cup {Append(l, x) : l \in shorter, x \in S}

NextPath ==
    \/ Idle /\ v_count < PathMaxV /\ D_add_vertex
    \/ \E src \in 0..v_count - 1, dst \in 0..v_count - 1 :
          Idle /\ D_add_edge(src, dst, 1)
    \/ \E src \in 0..v_count - 1, dst \in 0..v_count - 1 :
          Idle /\ D_remove_edge(src, dst)
    \/ \E path \in ListsOver(-1..v_count, PathMaxLen) :
          Invoke("is_valid_path", <<path>>)
    \/ D_is_valid_path

SpecPath == InitDG /\ [][NextPath]_vars

\* C12: is_valid_path([]) returns True, and is_valid_path([x]) returns True
\* exactly when x is a vertex, 0 <= x < v_count, negative x included.
C12_ShortPaths ==
    (Returned("is_valid_path") /\ Len(call.args[1]) <= 1) =>
        /\ ret.exc = ""
        /\ Len(call.args[1]) = 0 => ret.val = TRUE
        /\ Len(call.args[1]) = 1 => ret.val = InRange(call.args[1][1])

\* C12 for the empty path and for the ids that are not negative: what the
\* code does do.
ShortPathsNonNegative ==
    (Returned("is_valid_path") /\ Len(call.args[1]) <= 1
       /\ (Len(call.args[1]) = 1 => call.args[1][1] >= 0)) =>
        /\ ret.exc = ""
        /\ Len(call.args[1]) = 0 => ret.val = TRUE
        /\ Len(call.args[1]) = 1 => ret.val = InRange(call.args[1][1])

\* What the code does with a negative id: is_valid_path([x]) is True.
ShortPathNegativeTrue ==
    (Returned("is_valid_path") /\ Len(call.args[1]) = 1 /\ call.args[1][1] < 0) =>
        (ret.exc = "" /\ ret.val = TRUE)

\* ------------------------------------------- add_edge, then remove_edge
\* A round trip is add_edge followed at once by remove_edge with the same
\* two vertices.  Its add_edge keeps, in the field before of call, the
\* graph it was called on; its remove_edge hands that field on.

InRoundTrip == call.op = "add_edge" /\ "before" \in DOMAIN call

RoundTripDone == call.op = "remove_edge" /\ "before" \in DOMAIN call

Rt_D_add_edge(src, dst, weight) ==
    LET r == add_edge(adj_matrix, v_count, src, dst, weight)
    IN /\ adj_matrix' = r.m
       /\ v_count' = v_count
       /\ UNCHANGED adj_list
       /\ call' = [op |-> "add_edge", args |-> <<src, dst, weight>>,
                   before |-> adj_matrix]
       /\ ret' = [exc |-> r.exc, val |-> <<>>]

Rt_D_remove_edge ==
    LET r == remove_edge(adj_matrix, v_count, call.args[1], call.args[2])
    IN /\ InRoundTrip /\ Len(call.args) = 3
       /\ adj_matrix' = r.m
       /\ v_count' = v_count
       /\ UNCHANGED adj_list
       /\ call' = [op |-> "remove_edge", args |-> <<call.args[1], call.args[2]>>,
                   before |-> call.before]
       /\ ret' = [exc |-> r.exc, val |-> <<>>]

Rt_U_add_edge(u, v) ==
    /\ adj_list' = u_add_edge(adj_list, u, v)
    /\ call' = [op |-> "add_edge", args |-> <<u, v>>, before |-> adj_list]
    /\ ret' = NoRet
    /\ UNCHANGED dvars

\* remove_edge(u, v): the parameters of remove_edge are named (v, u).
Rt_U_remove_edge ==
    /\ InRoundTrip /\ Len(call.args) = 2
    /\ adj_list' = u_remove_edge(adj_list, call.args[1], call.args[2])
    /\ call' = [op |-> "remove_edge", args |-> call.args, before |-> call.before]
    /\ ret' = NoRet
    /\ UNCHANGED dvars

\* ------------------------------------------------- specification SpecRT
\* The two graphs are separate objects that share nothing: a behaviour
\* works on the DirectedGraph while the UndirectedGraph is empty, or on the
\* UndirectedGraph while the DirectedGraph is.  Either graph is built by its
\* mutators, and from any state a round trip may start.
NextRT ==
    \/ adj_list = <<>> /\ v_count < RtMaxV /\ D_add_vertex
    \/ \E src \in 0..v_count - 1, dst \in 0..v_count - 1 :
          adj_list = <<>> /\ D_add_edge(src, dst, 1)
    \/ \E src \in 0..v_count - 1, dst \in 0..v_count - 1 :
          adj_list = <<>> /\ D_remove_edge(src, dst)
    \/ \E src \in -1..v_count, dst \in -1..v_count, weight \in -1..MaxW :
          adj_list = <<>> /\ Rt_D_add_edge(src, dst, weight)
    \/ adj_list = <<>> /\ Rt_D_remove_edge
    \/ \E v \in Labels : v_count = 0 /\ U_add_vertex(v)
    \/ \E u \in Labels, v \in Labels : v_count = 0 /\ U_add_edge(u, v)
    \/ \E v \in Labels, u \in Labels : v_count = 0 /\ U_remove_edge(v, u)
    \/ \E v \in Labels : v_count = 0 /\ U_remove_vertex(v)
    \/ \E u \in Labels, v \in Labels : v_count = 0 /\ Rt_U_add_edge(u, v)
    \/ v_count = 0 /\ Rt_U_remove_edge

SpecRT == InitUG /\ [][NextRT]_vars

\* C13: after add_edge(u, v) followed at once by remove_edge(u, v) nothing
\* was raised, the edge u-v is absent, and every other edge is as it was
\* before the add_edge: every other cell of the matrix of the directed
\* graph, every other pair of neighbours of the undirected graph.
C13_RoundTrip ==
    RoundTripDone =>
        /\ ret.exc = ""
        /\ v_count > 0 =>
             /\ Len(adj_matrix) = Len(call.before)
             /\ \A r \in 0..v_count - 1, c \in 0..v_count - 1 :
                   IF <<r, c>> = call.args
                   THEN Cell(adj_matrix, r, c) = 0
                   ELSE Cell(adj_matrix, r, c) = Cell(call.before, r, c)
        /\ v_count = 0 =>
             /\ ~Neighbour(adj_list, call.args[1], call.args[2])
             /\ ~Neighbour(adj_list, call.args[2], call.args[1])
             /\ \A a \in Labels, b \in Labels :
                   {a, b} # {call.args[1], call.args[2]} =>
                       (Neighbour(adj_list, a, b) <=> Neighbour(call.before, a, b))

\* A round trip on a directed graph of RtMaxV vertices whose edge was there
\* before, with weight 1, and is gone after it, next to an edge that is
\* still there.
C13_Witness ==
    /\ RoundTripDone
    /\ v_count = RtMaxV
    /\ InRange(call.args[1]) /\ InRange(call.args[2])
    /\ Cell(call.before, call.args[1], call.args[2]) = 1
    /\ Cell(adj_matrix, call.args[1], call.args[2]) = 0
    /\ \E r \in 0..v_count - 1, c \in 0..v_count - 1 : Cell(adj_matrix, r, c) # 0

\* A round trip on an undirected graph that removed an edge which was
\* there before the add_edge, next to an edge that is still there.
RoundTripUndirected ==
    /\ RoundTripDone
    /\ v_count = 0
    /\ Neighbour(call.before, call.args[1], call.args[2])
    /\ \E a \in Labels, b \in Labels : Neighbour(adj_list, a, b)

\* ------------------------------------------- count_connected_components
RECURSIVE ccc_loop(_)

\* ccc_loop that drops a vertex without neighbours and does not count it.
ccc_loop_skip_isolated(st) ==
    IF st.exc # "" \/ Len(st.vertices) = 0 THEN st
    ELSE LET vertex == st.vertices[1]
         IN IF Len(Get(st.adj, vertex)) = 0
            THEN ccc_loop([st EXCEPT !.vertices = ListRemove(@, vertex)])
            ELSE LET r == u_dfs(st.adj, vertex, <<>>)
                     rest == RemoveAll([list |-> st.vertices, exc |-> r.exc], r.visited)
                 IN ccc_loop([adj |-> r.adj,
                              vertices |-> rest.list,
                              count |-> st.count + 1,
                              exc |-> rest.exc])

\* while len(vertices) > 0
ccc_loop(st) ==
    IF st.exc # "" \/ Len(st.vertices) = 0 THEN st
    ELSE LET vertex == st.vertices[1]
         IN IF Len(Get(st.adj, vertex)) = 0
            THEN ccc_loop([st EXCEPT !.count = @ + 1,
                                     !.vertices = ListRemove(@, vertex)])
            ELSE LET r == u_dfs(st.adj, vertex, <<>>)
                     rest == RemoveAll([list |-> st.vertices, exc |-> r.exc], r.visited)
                 IN ccc_loop([adj |-> r.adj,
                              vertices |-> rest.list,
                              count |-> st.count + 1,
                              exc |-> rest.exc])

count_connected_components(adj) ==
    ccc_loop([adj |-> adj, vertices |-> Keys(adj), count |-> 0, exc |-> ""])

U_count_connected_components ==
    LET r == count_connected_components(adj_list)
    IN /\ call.op = "count_connected_components" /\ ret.exc = "pending"
       /\ adj_list' = r.adj
       /\ ret' = [exc |-> r.exc, val |-> IF r.exc = "" THEN r.count ELSE <<>>]
       /\ UNCHANGED <<dvars, call>>

\* --------------------------------------------- specification SpecUComp
\* Graphs over the labels 0..TravMaxLabel built by the four mutators
\* (add_edge and remove_edge with the smaller label first: the vertices
\* still come in every key order, through add_vertex), and
\* count_connected_components called on them.
NextUComp ==
    \/ \E v \in TravLabels : Idle /\ U_add_vertex(v)
    \/ \E u \in TravLabels, v \in TravLabels :
          Idle /\ u < v /\ WithinEdges(u, v) /\ U_add_edge(u, v)
    \/ \E v \in TravLabels, u \in TravLabels : Idle /\ v < u /\ U_remove_edge(v, u)
    \/ \E v \in TravLabels : Idle /\ U_remove_vertex(v)
    \/ Invoke("count_connected_components", <<>>)
    \/ U_count_connected_components

SpecUComp == InitUG /\ [][NextUComp]_vars

\* The connected components: the sets of vertices joined by chains of edges.
Components(adj) ==
    {Joined(EdgeSet(adj), {adj[i][1]}) : i \in 1..Len(adj)}

\* C14: count_connected_components() returns the number of connected
\* components, a vertex without neighbours being a component of its own:
\* 0 on the empty graph, 2 on three vertices with one edge.
C14_ComponentCount ==
    Returned("count_connected_components") =>
        /\ ret.exc = ""
        /\ ret.val = Cardinality(Components(adj_list))
        /\ (Len(adj_list) = 0 => ret.val = 0)
        /\ (Len(adj_list) = 3 /\ Cardinality(EdgeSet(adj_list)) = 1 => ret.val = 2)

\* count_connected_components() returned 2 on four vertices of which the
\* first has no neighbour and the other three are joined.
C14_Witness ==
    /\ Returned("count_connected_components")
    /\ Len(adj_list) = 4
    /\ Len(adj_list[1][2]) = 0
    /\ Cardinality(EdgeSet(adj_list)) >= 2
    /\ ret.val = 2

\* count_connected_components() returned 2 on two pairs of joined vertices.
ComponentCountTwoPairs ==
    /\ Returned("count_connected_components")
    /\ Len(adj_list) = 4
    /\ \A i \in 1..4 : Len(adj_list[i][2]) = 1
    /\ ret.val = 2

\* ============================================== maze_solving_algo.py
\* board is a list of rows of cells, "#" a wall and "-" an open cell; a
\* position (x, y) is the pair <<x, y>>, board[x][y] its cell.  The
\* dictionary distances is a function on the positions of the board and the
\* source.  A queue entry (distance, position, path) is a triple; the
\* optional result is << >> (None) or <<path>>.

\* (a, b) < (c, d) on tuples
TupleLess(p, q) == p[1] < q[1] \/ (p[1] = q[1] /\ p[2] < q[2])

RECURSIVE ListLess(_, _)
\* p < q on lists of tuples
ListLess(p, q) ==
    IF Len(q) = 0 THEN FALSE
    ELSE IF Len(p) = 0 THEN TRUE
    ELSE IF Head(p) # Head(q) THEN TupleLess(Head(p), Head(q))
    ELSE ListLess(Tail(p), Tail(q))

\* heapq's order of the entries
PuzzleEntryLess(a, b) ==
    \/ a[1] < b[1]
    \/ a[1] = b[1] /\ TupleLess(a[2], b[2])
    \/ a[1] = b[1] /\ a[2] = b[2] /\ ListLess(a[3], b[3])

\* The index heappop takes from priority_queue, held in push order.
PuzzleMinEntry(pq) ==
    CHOOSE i \in 1..Len(pq) :
        \A j \in 1..Len(pq) : ~PuzzleEntryLess(pq[j], pq[i]) /\ (pq[j] = pq[i] => i <= j)

\* [(0,1), (1,0), (-1,0), (0,-1)]
Moves == << <<0, 1>>, <<1, 0>>, <<-1, 0>>, <<0, -1>> >>

RECURSIVE solve_moves(_, _, _, _, _, _, _)

\* solve_moves without the test for a wall cell.
solve_moves_through_walls(board, destination, st, current_distance, pos, path, k) ==
    IF k > Len(Moves) THEN st
    ELSE LET nx == pos[1] + Moves[k][1]
             ny == pos[2] + Moves[k][2]
             distance == current_distance + 1
         IN IF ~(0 <= nx /\ nx < Len(board)) \/ ~(0 <= ny /\ ny < Len(board[1]))
            THEN solve_moves(board, destination, st, current_distance, pos, path, k + 1)
            ELSE IF LessThan(distance, st.distances[<<nx, ny>>])
            THEN solve_moves(board, destination,
                     [distances |-> [st.distances EXCEPT ![<<nx, ny>>] = distance],
                      priority_queue |-> Append(st.priority_queue,
                                                <<distance, <<nx, ny>>, Append(path, <<nx, ny>>)>>),
                      shortest_path |-> IF <<nx, ny>> = destination
                                        THEN <<Append(path, destination)>>
                                        ELSE st.shortest_path],
                     current_distance, pos, path, k + 1)
            ELSE solve_moves(board, destination, st, current_distance, pos, path, k + 1)

\* for x_change, y_change in [...], from the k-th move on
solve_moves(board, destination, st, current_distance, pos, path, k) ==
    IF k > Len(Moves) THEN st
    ELSE LET nx == pos[1] + Moves[k][1]
             ny == pos[2] + Moves[k][2]
             distance == current_distance + 1
         IN IF ~(0 <= nx /\ nx < Len(board)) \/ ~(0 <= ny /\ ny < Len(board[1]))
            THEN solve_moves(board, destination, st, current_distance, pos, path, k + 1)
            ELSE IF board[nx + 1][ny + 1] = "#"
            THEN solve_moves(board, destination, st, current_distance, pos, path, k + 1)
            ELSE IF LessThan(distance, st.distances[<<nx, ny>>])
            THEN solve_moves(board, destination,
                     [distances |-> [st.distances EXCEPT ![<<nx, ny>>] = distance],
                      priority_queue |-> Append(st.priority_queue,
                                                <<distance, <<nx, ny>>, Append(path, <<nx, ny>>)>>),
                      shortest_path |-> IF <<nx, ny>> = destination
                                        THEN <<Append(path, destination)>>
                                        ELSE st.shortest_path],
                     current_distance, pos, path, k + 1)
            ELSE solve_moves(board, destination, st, current_distance, pos, path, k + 1)

RECURSIVE solve_loop(_, _, _)
\* while len(priority_queue) > 0
solve_loop(board, destination, st) ==
    IF Len(st.priority_queue) = 0 THEN st
    ELSE LET i == PuzzleMinEntry(st.priority_queue)
             entry == st.priority_queue[i]
             popped == [st EXCEPT !.priority_queue = RemoveAt(@, i)]
         IN IF st.distances[entry[2]] # inf /\ entry[1] > st.distances[entry[2]]
            THEN solve_loop(board, destination, popped)
            ELSE solve_loop(board, destination,
                            solve_moves(board, destination, popped,
                                        entry[1], entry[2], entry[3], 1))

\* The positions of the board.
Positions(board) ==
    {<<r, c>> : r \in 0..Len(board) - 1, c \in 0..Len(board[1]) - 1}

solve_puzzle(board, source, destination) ==
    IF source = destination THEN << <<source>> >>
    ELSE solve_loop(board, destination,
             [distances |-> [pos \in Positions(board) \cup {source} |->
                                IF pos = source THEN 0 ELSE inf],
              priority_queue |-> << <<0, source, <<source>> >> >>,
              shortest_path |-> <<>>]).shortest_path

P_solve_puzzle ==
    /\ call.op = "solve_puzzle" /\ ret.exc = "pending"
    /\ ret' = [exc |-> "", val |-> solve_puzzle(call.args[1], call.args[2], call.args[3])]
    /\ UNCHANGED <<gvars, call>>

\* --------------------------------------------- specification SpecPuzzle
\* solve_puzzle keeps no state between calls: a behaviour is one call, on
\* any rectangular board of at most GridMaxRows rows and GridMaxCols
\* columns, from any position of the board (a wall or not) to any position
\* of the board or to one position below it.
Boards ==
    UNION {[1..r -> [1..c -> {"-", "#"}]] : r \in 1..GridMaxRows, c \in 1..GridMaxCols}

InitPuzzle ==
    /\ D_Init
    /\ U_Init
    /\ ret = [exc |-> "pending", val |-> <<>>]
    /\ \E board \in Boards :
          \E source \in Positions(board),
             destination \in Positions(board) \cup {<<Len(board), 0>>} :
                call = [op |-> "solve_puzzle", args |-> <<board, source, destination>>]

NextPuzzle == P_solve_puzzle

SpecPuzzle == InitPuzzle /\ [][NextPuzzle]_vars

\* The open positions next to pos.
OpenNeighbours(board, pos) ==
    {q \in Positions(board) :
        /\ board[q[1] + 1][q[2] + 1] # "#"
        /\ \E k \in 1..Len(Moves) : q = <<pos[1] + Moves[k][1], pos[2] + Moves[k][2]>>}

RECURSIVE GridHopsFrom(_, _, _, _)
\* The least number of orthogonal moves over open cells that lead from a
\* position of seen, the positions at most k moves away from the source, to
\* d, plus k; inf when no chain of moves leads to d.
GridHopsFrom(board, seen, k, d) ==
    IF d \in seen THEN k
    ELSE LET more == seen \cup UNION {OpenNeighbours(board, pos) : pos \in seen}
         IN IF more = seen THEN inf ELSE GridHopsFrom(board, more, k + 1, d)

GridHops(board, s, d) == GridHopsFrom(board, {s}, 0, d)

\* C15: from an open source on the board to a different destination,
\* solve_puzzle returns None exactly when no chain of orthogonal moves over
\* open cells leads to the destination; otherwise a list from source to
\* destination, each cell one orthogonal move from the one before, none a
\* wall, of hop distance + 1 cells.  With source = destination it returns
\* [source].
C15_ShortestPath ==
    Returned("solve_puzzle") =>
        LET board == call.args[1]
            source == call.args[2]
            destination == call.args[3]
        IN /\ ret.exc = ""
           /\ source = destination => ret.val = << <<source>> >>
           /\ (source # destination /\ board[source[1] + 1][source[2] + 1] # "#") =>
                /\ ret.val = <<>> <=> GridHops(board, source, destination) = inf
                /\ ret.val # <<>> =>
                     LET path == ret.val[1]
                     IN /\ path[1] = source
                        /\ path[Len(path)] = destination
                        /\ \A i \in 1..Len(path) :
                              /\ path[i] \in Positions(board)
                              /\ board[path[i][1] + 1][path[i][2] + 1] # "#"
                        /\ \A i \in 1..Len(path) - 1 :
                              \E k \in 1..Len(Moves) :
                                 path[i + 1] = <<path[i][1] + Moves[k][1],
                                                 path[i][2] + Moves[k][2]>>
                        /\ Len(path) = GridHops(board, source, destination) + 1
                /\ (board = [r \in 1..3 |-> [c \in 1..3 |-> "-"]]
                      /\ source = <<0, 0>> /\ destination = <<2, 2>>)
                     => Len(ret.val[1]) = 5

\* solve_puzzle returned a path of 7 cells from (0,0) to (0,2) around the
\* walls (0,1) and (1,1) of a 3x3 board.
C15_Witness ==
    /\ Returned("solve_puzzle")
    /\ call.args[1] = << <<"-", "#", "-">>, <<"-", "#", "-">>, <<"-", "-", "-">> >>
    /\ call.args[2] = <<0, 0>>
    /\ call.args[3] = <<0, 2>>
    /\ ret.val # <<>>
    /\ Len(ret.val[1]) = 7

\* solve_puzzle returned None for a destination walled off from the source.
PuzzleUnreachable ==
    /\ Returned("solve_puzzle")
    /\ call.args[1] = << <<"-", "#", "-">>, <<"-", "#", "-">>, <<"-", "#", "-">> >>
    /\ call.args[2] = <<0, 0>>
    /\ call.args[3] = <<0, 2>>
    /\ ret.val = <<>>

\* --------------------------------- the undirected traversals, as claimed
\* The neighbours of the vertex v.
NeighbourSet(adj, v) == Elements(Get(adj, v))

RECURSIVE UPreorderWalk(_, _, _)
\* Depth-first preorder by an explicit path: from the last vertex of path
\* enter its least neighbour not yet in order, or step back.
UPreorderWalk(adj, order, path) ==
    IF path = <<>> THEN order
    ELSE LET top == path[Len(path)]
             next == {u \in NeighbourSet(adj, top) : ~InList(u, order)}
         IN IF next = {}
            THEN UPreorderWalk(adj, order, SubSeq(path, 1, Len(path) - 1))
            ELSE UPreorderWalk(adj, Append(order, SetMin(next)), Append(path, SetMin(next)))

UPreorder(adj, s) == UPreorderWalk(adj, <<s>>, <<s>>)

RECURSIVE ULevelOrderWalk(_, _, _)
\* Level order by discovery: the i-th vertex of order appends its
\* neighbours not yet in order, in ascending label order.
ULevelOrderWalk(adj, order, i) ==
    IF i > Len(order) THEN order
    ELSE LET new == SelectSeq(Sort(Get(adj, order[i])), LAMBDA u : ~InList(u, order))
         IN ULevelOrderWalk(adj, order \o new, i + 1)

ULevelOrder(adj, s) == ULevelOrderWalk(adj, <<s>>, 1)

\* The vertices connected to s.
Connected(adj, s) == Joined(EdgeSet(adj), {s})

\* The result of the dfs or bfs call that has returned is the one claimed:
\* without end the vertices connected to start, each once, in preorder
\* (dfs) or level order (bfs) with ascending neighbours; with an end
\* connected to start the prefix of that list up to and including end; with
\* any other end that list itself.
UTravResultAsClaimed ==
    LET v_start == call.args[1]
        v_end == call.args[2]
        all == IF call.op = "dfs" THEN UPreorder(adj_list, v_start)
               ELSE ULevelOrder(adj_list, v_start)
    IN /\ ret.exc = ""
       /\ Elements(all) = Connected(adj_list, v_start)
       /\ NoDuplicates(all)
       /\ v_end = <<>> => ret.val = all
       /\ (v_end # <<>> /\ v_end[1] \in Connected(adj_list, v_start)) =>
             /\ ret.val = PrefixThrough(all, v_end[1])
             /\ ret.val[Len(ret.val)] = v_end[1]
       /\ (v_end # <<>> /\ v_end[1] \notin Connected(adj_list, v_start)) =>
             ret.val = all

\* C16: dfs and bfs of undirected_graph_search_algos.py, called with a start
\* that is a vertex and with no end or any label as end, return the result
\* claimed.
C16_UTraversal ==
    ((Returned("dfs") \/ Returned("bfs")) /\ HasKey(adj_list, call.args[1])) =>
        UTravResultAsClaimed

\* C16 for bfs, and for dfs with no end or an end other than the label "":
\* what the code does do.
UTraversalTruthyEnd ==
    ((Returned("dfs") \/ Returned("bfs")) /\ HasKey(adj_list, call.args[1])
       /\ (call.op = "dfs" /\ call.args[2] # <<>> => call.args[2][1] # 0)) =>
        UTravResultAsClaimed

\* What dfs does with the end "": it raises RecursionError when start has a
\* neighbour and returns [] when it has none.
UDfsEmptyEnd ==
    (Returned("dfs") /\ HasKey(adj_list, call.args[1]) /\ call.args[2] = <<0>>) =>
        IF Len(Get(adj_list, call.args[1])) > 0
        THEN ret.exc = "RecursionError"
        ELSE ret.exc = "" /\ ret.val = <<>>

\* dfs returned four vertices in an order that is not the level order.
UTraversalOrdersDiffer ==
    /\ Returned("dfs") /\ call.args[2] = <<>>
    /\ HasKey(adj_list, call.args[1])
    /\ Len(ret.val) = 4
    /\ ret.val # ULevelOrder(adj_list, call.args[1])

\* ------------------------------------------- get_edges, UndirectedGraph
\* get_edges of ud_graph.py (lines 101-111) is, statement for statement,
\* that of undirected_graph_search_algos.py modelled here.
RECURSIVE u_get_edges_loop(_, _, _, _)

\* u_get_edges_loop without the test that prevents duplicates.
u_get_edges_loop_all(adj, result, i, k) ==
    IF i > Len(adj) THEN result
    ELSE IF k > Len(adj[i][2]) THEN u_get_edges_loop(adj, result, i + 1, 1)
    ELSE u_get_edges_loop(adj, Append(result, <<adj[i][1], adj[i][2][k]>>), i, k + 1)

\* for vertex in self.adj_list: for edge in self.adj_list[vertex], from
\* the k-th neighbour of the i-th key on
u_get_edges_loop(adj, result, i, k) ==
    IF i > Len(adj) THEN result
    ELSE IF k > Len(adj[i][2]) THEN u_get_edges_loop(adj, result, i + 1, 1)
    ELSE LET vertex == adj[i][1]
             edge == adj[i][2][k]
         IN IF ~InList(<<edge, vertex>>, result)
            THEN u_get_edges_loop(adj, Append(result, <<vertex, edge>>), i, k + 1)
            ELSE u_get_edges_loop(adj, result, i, k + 1)

u_get_edges(adj) == u_get_edges_loop(adj, <<>>, 1, 1)

U_get_edges ==
    /\ call.op = "get_edges" /\ ret.exc = "pending"
    /\ ret' = [exc |-> "", val |-> u_get_edges(adj_list)]
    /\ UNCHANGED <<gvars, call>>

\* -------------------------------------------- specification SpecUEdges
\* The mutators of UndirectedGraph, called with every label of 0..MaxLabel,
\* and get_edges called on the graphs they build.
NextUEdges ==
    \/ \E v \in Labels : Idle /\ U_add_vertex(v)
    \/ \E u \in Labels, v \in Labels : Idle /\ U_add_edge(u, v)
    \/ \E v \in Labels, u \in Labels : Idle /\ U_remove_edge(v, u)
    \/ \E v \in Labels : Idle /\ U_remove_vertex(v)
    \/ Invoke("get_edges", <<>>)
    \/ U_get_edges

SpecUEdges == InitUG /\ [][NextUEdges]_vars

\* C17: get_edges() lists, for every edge {u, v} of the graph, exactly one
\* of the pairs (u, v) and (v, u), and no pair that is not an edge.
C17_EdgesOnce ==
    Returned("get_edges") =>
        /\ ret.exc = ""
        /\ \A e \in EdgeSet(adj_list) :
              Cardinality({i \in 1..Len(ret.val) : {ret.val[i][1], ret.val[i][2]} = e}) = 1
        /\ \A i \in 1..Len(ret.val) :
              /\ {ret.val[i][1], ret.val[i][2]} \in EdgeSet(adj_list)
              /\ Neighbour(adj_list, ret.val[i][1], ret.val[i][2])
              /\ Neighbour(adj_list, ret.val[i][2], ret.val[i][1])

\* get_edges() returned three pairs on a triangle whose first key is not
\* its least label.
C17_Witness ==
    /\ Returned("get_edges")
    /\ Len(adj_list) = 3
    /\ Cardinality(EdgeSet(adj_list)) = 3
    /\ Len(ret.val) = 3
    /\ adj_list[1][1] > adj_list[2][1]

\* ------------------------------------------------------ recursion depth
\* C18: during dfs(start, end) of the DirectedGraph, start a vertex and end
\* None or a vertex, the number of nested active rec_dfs calls never exceeds
\* the number of vertices reachable from start, and the call returns.
C18_BoundedRecursion ==
    (Returned("dfs") /\ InRange(call.args[1])
       /\ (call.args[2] = <<>> \/ InRange(call.args[2][1]))) =>
        /\ ret.exc = ""
        /\ ret.depth <= Cardinality(Reachable(adj_matrix, v_count, call.args[1]))

\* C18 for the directed dfs with no end or an end vertex other than 0: what
\* the code does do.
BoundedRecursionNonzero ==
    (Returned("dfs") /\ InRange(call.args[1])
       /\ (call.args[2] = <<>> \/ (InRange(call.args[2][1]) /\ call.args[2][1] # 0))) =>
        /\ ret.exc = ""
        /\ ret.depth <= Cardinality(Reachable(adj_matrix, v_count, call.args[1]))

\* What the directed dfs does with the end vertex 0 when start lies on a
\* cycle: the recursion never ends.
DfsEndZeroOnCycle ==
    (Returned("dfs") /\ InRange(call.args[1]) /\ call.args[2] = <<0>>
       /\ \E u \in 0..v_count - 1 :
             /\ Cell(adj_matrix, call.args[1], u) # 0
             /\ call.args[1] \in Reachable(adj_matrix, v_count, u)) =>
        ret.exc = "RecursionError"

\* C18 for the undirected dfs with no end or an end vertex other than "".
UBoundedRecursionTruthy ==
    (Returned("dfs") /\ HasKey(adj_list, call.args[1])
       /\ (call.args[2] = <<>>
             \/ (HasKey(adj_list, call.args[2][1]) /\ call.args[2][1] # 0))) =>
        /\ ret.exc = ""
        /\ ret.depth <= Cardinality(Connected(adj_list, call.args[1]))

\* ============================================= DirectedGraph.__init__
\* start_edges is optional: << >> is None, <<list>> a list of triples
\* <<u, v, weight>>.  The result is the new object's fields n (v_count)
\* and m (adj_matrix), and exc.
Max(a, b) == IF a >= b THEN a ELSE b

RECURSIVE max_id(_, _)
\* for u, v, _ in start_edges: v_count = max(v_count, u, v)
max_id(v, edges) ==
    IF Len(edges) = 0 THEN v
    ELSE max_id(Max(v, Max(Head(edges)[1], Head(edges)[2])), Tail(edges))

RECURSIVE add_vertices(_, _)
\* for _ in range(k): self.add_vertex()
add_vertices(g, k) ==
    IF k <= 0 THEN g
    ELSE add_vertices([g EXCEPT !.m = add_vertex(g.m, g.n), !.n = g.n + 1], k - 1)

RECURSIVE add_edges(_, _)
\* for u, v, weight in start_edges: self.add_edge(u, v, weight)
add_edges(g, edges) ==
    IF g.exc # "" \/ Len(edges) = 0 THEN g
    ELSE LET r == add_edge(g.m, g.n, Head(edges)[1], Head(edges)[2], Head(edges)[3])
         IN add_edges([g EXCEPT !.m = r.m, !.exc = r.exc], Tail(edges))

DirectedGraph(start_edges) ==
    LET empty == [n |-> 0, m |-> <<>>, exc |-> ""]
    IN IF start_edges = <<>> THEN empty
       ELSE add_edges(add_vertices(empty, max_id(0, start_edges[1]) + 1), start_edges[1])

D_construct ==
    LET g == DirectedGraph(call.args[1])
    IN /\ call.op = "__init__" /\ ret.exc = "pending"
       /\ v_count' = g.n
       /\ adj_matrix' = g.m
       /\ ret' = [exc |-> g.exc, val |-> <<>>]
       /\ UNCHANGED <<adj_list, call>>

\* ----------------------------------------------- specification SpecCtor
\* A behaviour is one construction: DirectedGraph() or DirectedGraph(list),
\* list any list of at most CtorMaxEdges triples with ids -1..CtorMaxId and
\* weights -1..CtorMaxW.
Triples == (-1..CtorMaxId) \X (-1..CtorMaxId) \X (-1..CtorMaxW)

InitCtor ==
    /\ D_Init
    /\ U_Init
    /\ ret = [exc |-> "pending", val |-> <<>>]
    /\ \E start_edges \in {<<>>} \cup {<<list>> : list \in ListsOver(Triples, CtorMaxEdges)} :
          call = [op |-> "__init__", args |-> <<start_edges>>]

NextCtor == D_construct

SpecCtor == InitCtor /\ [][NextCtor]_vars

\* The ids of the triples of a list.
IdsOf(edges) == UNION {{edges[i][1], edges[i][2]} : i \in 1..Len(edges)}

SetMax(S) == CHOOSE x \in S : \A y \in S : x >= y

RECURSIVE ApplyEdges(_, _, _)
\* add_edge applied to the triples in the given order.
ApplyEdges(m, n, edges) ==
    IF Len(edges) = 0 THEN m
    ELSE ApplyEdges(add_edge(m, n, Head(edges)[1], Head(edges)[2], Head(edges)[3]).m,
                    n, Tail(edges))

\* The matrix of n vertices without edges.
NoEdges(n) == [r \in 1..n |-> [c \in 1..n |-> 0]]

\* C20: DirectedGraph(list), the ids of list not negative, has max(ids) + 1
\* vertices and the edges add_edge gives when applied to the triples in
\* order; for the empty list it has no vertices, like DirectedGraph().
C20_Construction ==
    (call.op = "__init__" /\ ret.exc # "pending" /\ call.args[1] # <<>>
       /\ \A id \in IdsOf(call.args[1][1]) : id >= 0) =>
        LET edges == call.args[1][1]
        IN /\ ret.exc = ""
           /\ Len(edges) = 0 => (v_count = 0 /\ adj_matrix = <<>>)
           /\ Len(edges) > 0 =>
                /\ v_count = SetMax(IdsOf(edges)) + 1
                /\ adj_matrix = ApplyEdges(NoEdges(v_count), v_count, edges)

\* C20 for the lists that are not empty, and DirectedGraph(): what the code
\* does do.
ConstructionNonEmpty ==
    (call.op = "__init__" /\ ret.exc # "pending") =>
        /\ ret.exc = ""
        /\ call.args[1] = <<>> => (v_count = 0 /\ adj_matrix = <<>>)
        /\ (call.args[1] # <<>> /\ Len(call.args[1][1]) > 0
              /\ \A id \in IdsOf(call.args[1][1]) : id >= 0) =>
             /\ v_count = SetMax(IdsOf(call.args[1][1])) + 1
             /\ adj_matrix = ApplyEdges(NoEdges(v_count), v_count, call.args[1][1])

\* What the code does with the empty list: a graph of one vertex.
ConstructionEmptyListOneVertex ==
    (call.op = "__init__" /\ ret.exc # "pending" /\ call.args[1] = << <<>> >>) =>
        (v_count = 1 /\ adj_matrix = << <<0>> >>)

\* A construction whose second triple overwrote the edge of the first.
ConstructionOverwrites ==
    /\ call.op = "__init__" /\ ret.exc # "pending"
    /\ call.args[1] = << << <<0, 2, 1>>, <<0, 2, 2>> >> >>
    /\ v_count = 3
    /\ Cell(adj_matrix, 0, 2) = 2

\* --------------------------------------------- the dijkstra() example 1
\* edges of the example of lines 432-433
FixtureEdges ==
    << <<0, 1, 10>>, <<4, 0, 12>>, <<1, 4, 15>>, <<4, 3, 3>>,
       <<3, 1, 5>>, <<2, 1, 23>>, <<3, 2, 7>> >>

RECURSIVE Pick(_, _, _)
\* The elements of list whose index, from i on, is in S, in their order.
Pick(list, S, i) ==
    IF i > Len(list) THEN <<>>
    ELSE IF i \in S THEN <<list[i]>> \o Pick(list, S, i + 1)
    ELSE Pick(list, S, i + 1)

\* ------------------------------------------------ specification SpecFix
\* The graph is constructed from the edges of the example, or from any of
\* them in the order of the example, and dijkstra is called on it with each
\* of its vertices.
InitFix ==
    /\ D_Init
    /\ U_Init
    /\ ret = [exc |-> "pending", val |-> <<>>]
    /\ \E S \in SUBSET (1..Len(FixtureEdges)) :
          call = [op |-> "__init__", args |-> << <<Pick(FixtureEdges, S, 1)>> >>]

NextFix ==
    \/ D_construct
    \/ \E src \in 0..v_count - 1 : Invoke("dijkstra", <<src>>)
    \/ D_dijkstra

SpecFix == InitFix /\ [][NextFix]_vars

\* The graph is the one constructed from all the edges of the example.
IsFixture ==
    LET g == DirectedGraph(<<FixtureEdges>>)
    IN v_count = g.n /\ adj_matrix = g.m

\* C19, with the distance the code computes at vertex 1: on the graph of
\* the example dijkstra(4) returns 0 at vertex 4, 12 at vertex 0 and 8 at
\* vertex 1 (by 4 -> 3 -> 1, 3 + 5), the list [12, 8, 10, 3, 0]; on every
\* graph of the specification it returns the least path weights.
C19_FixtureDistances ==
    Returned("dijkstra") =>
        /\ ret.exc = ""
        /\ \A v \in 0..v_count - 1 :
              ret.val[v + 1] = MinPathWeight(adj_matrix, v_count, call.args[1], v)
        /\ (IsFixture /\ call.args = <<4>>) =>
              /\ ret.val[4 + 1] = 0
              /\ ret.val[0 + 1] = 12
              /\ ret.val[1 + 1] = 8
              /\ ret.val = <<12, 8, 10, 3, 0>>

\* dijkstra(4) has returned on the graph of the example, with the distance
\* 3 at vertex 3, through which the shortest path to vertex 1 leads.
C19_Witness ==
    /\ Returned("dijkstra") /\ call.args = <<4>>
    /\ IsFixture
    /\ Len(ret.val) = 5
    /\ ret.val[3 + 1] = 3

\* C19 as stated: on the graph of the example dijkstra(4) returns 0 at
\* vertex 4, 12 at vertex 0 and 22 at vertex 1.
C19_FixtureAsStated ==
    (Returned("dijkstra") /\ IsFixture /\ call.args = <<4>>) =>
        /\ ret.val[4 + 1] = 0
        /\ ret.val[0 + 1] = 12
        /\ ret.val[1 + 1] = 22

\* ------------------------------------------ dijkstra, one pop at a time
\* The while loop of dijkstra taken one iteration at a time.  The locals of
\* the running call are kept in call: pq (the heap, in push order) and
\* visited (the dictionary's values in key order).

\* The running call of dijkstra is inside its while loop.
InLoop == call.op = "dijkstra" /\ ret.exc = "pending"

\* The index of the entry that the next pop_task() takes.
NextPop == MinEntry(call.pq)

\* One iteration of while len(pq) > 0: pop_task(), the test against
\* visited[vertex] (KeyError when vertex is no key) and, when it passes, the
\* assignment and the add_task of every non-zero cell of the row.
D_dijkstra_pop ==
    /\ InLoop
    /\ Len(call.pq) > 0
    /\ LET i == NextPop
           distance == call.pq[i][1]
           vertex == call.pq[i][2]
           rest == RemoveAt(call.pq, i)
       IN IF vertex < 0 \/ vertex >= Len(call.visited)
          THEN /\ call' = [call EXCEPT !.pq = rest]
               /\ ret' = [exc |-> "KeyError", val |-> <<>>]
          ELSE IF LessThan(distance, call.visited[vertex + 1])
          THEN /\ call' = [call EXCEPT
                             !.pq = rest \o Pushes(adj_matrix, vertex, distance),
                             !.visited = [@ EXCEPT ![vertex + 1] = distance]]
               /\ ret' = ret
          ELSE /\ call' = [call EXCEPT !.pq = rest]
               /\ ret' = ret
    /\ UNCHANGED gvars

\* The loop ends on the empty queue: return [*visited.values()]
D_dijkstra_return ==
    /\ InLoop
    /\ Len(call.pq) = 0
    /\ ret' = [exc |-> "", val |-> call.visited]
    /\ UNCHANGED <<gvars, call>>

\* --------------------------------------------- specification SpecDijRun
\* A behaviour is one call of dijkstra, taken one iteration at a time, on
\* any graph of at most DijMaxV vertices with weights up to DijMaxW (a cell
\* 0 is no edge, and add_edge leaves the diagonal 0), from a source that
\* may lie one past either end of the vertex range.  FairDijRun adds that
\* the call runs on: the library is synchronous, nothing else runs during
\* a call.
Matrices(n) ==
    {m \in [1..n -> [1..n -> 0..DijMaxW]] : \A i \in 1..n : m[i][i] = 0}

\* The call has reached its while loop:
\* vertices = self.get_vertices(); visited = {...}; pq = []; add_task(src, 0)
InitDijRun ==
    /\ adj_list = <<>>
    /\ v_count \in 0..DijMaxV
    /\ adj_matrix \in Matrices(v_count)
    /\ \E src \in -1..v_count :
          call = [op |-> "dijkstra", args |-> <<src>>,
                  pq |-> << <<0, src>> >>,
                  visited |-> [i \in 1..v_count |-> inf]]
    /\ ret = [exc |-> "pending", val |-> <<>>]

NextDijRun ==
    \/ D_dijkstra_pop
    \/ D_dijkstra_return

SpecDijRun == InitDijRun /\ [][NextDijRun]_vars

FairDijRun == SpecDijRun /\ WF_vars(NextDijRun)

\* The loop taken one iteration at a time ends as dijkstra does.
DijkstraStepsAgree ==
    (call.op = "dijkstra" /\ ret.exc # "pending") =>
        ret = dijkstra(adj_matrix, v_count, call.args[1])

\* What one iteration may do, by the claim: it does not raise; the only
\* entry of visited it may change is that of the popped vertex, from
\* infinity to a finite value; it pushes only when it makes that change;
\* and a pop of a vertex whose entry is finite already only removes the
\* popped entry.
PopAsClaimed ==
    LET i == NextPop
        vertex == call.pq[i][2]
        rest == RemoveAt(call.pq, i)
    IN /\ ret'.exc = "pending"
       /\ \A v \in 0..v_count - 1 :
             call'.visited[v + 1] # call.visited[v + 1] =>
                 /\ v = vertex
                 /\ call.visited[v + 1] = inf
                 /\ call'.visited[v + 1] # inf
       /\ call'.pq # rest =>
             /\ call.visited[vertex + 1] = inf
             /\ call'.visited[vertex + 1] # inf
             /\ call'.pq = rest \o Pushes(adj_matrix, vertex, call'.visited[vertex + 1])
       /\ call.visited[vertex + 1] # inf => call' = [call EXCEPT !.pq = rest]

\* C21: during dijkstra(src) on a graph with positive weights every vertex
\* is finalised at most once (its entry of visited goes from infinity to a
\* finite value at most once and never changes afterwards), its outgoing
\* edges are pushed only at that moment, every later pop of the vertex is
\* skipped, and the queue empties and the call returns.
C21_StaleEntryRejection ==
    /\ [][(InLoop /\ Len(call.pq) > 0) => PopAsClaimed]_vars
    /\ (InLoop ~> (call.op = "dijkstra" /\ ret.exc = ""))

\* What C21 says, for the calls whose source is a vertex of the graph.
StaleEntryRejectionPresentSrc ==
    /\ [][(InLoop /\ Len(call.pq) > 0
             /\ call.args[1] >= 0 /\ call.args[1] < v_count) => PopAsClaimed]_vars
    /\ ((InLoop /\ call.args[1] >= 0 /\ call.args[1] < v_count)
           ~> (call.op = "dijkstra" /\ ret.exc = ""))

\* With a source that is no vertex the first iteration raises KeyError, on
\* the queue it has just emptied.
DijkstraAbsentSrcFirstPop ==
    (call.op = "dijkstra" /\ ~(call.args[1] >= 0 /\ call.args[1] < v_count)
        /\ ret.exc # "pending") =>
        /\ ret.exc = "KeyError"
        /\ call.pq = <<>>
        /\ \A v \in 1..v_count : call.visited[v] = inf

\* A stale entry was popped and skipped: the queue is empty, and the call
\* made more pops than it finalised vertices.  (Every pop of a finalised
\* vertex leaves the entries of visited as they are.)
StaleEntrySkipped ==
    /\ InLoop
    /\ v_count = 3
    /\ call.args = <<0>>
    /\ Cell(adj_matrix, 0, 1) = 3
    /\ Cell(adj_matrix, 0, 2) = 1
    /\ Cell(adj_matrix, 2, 1) = 1
    /\ call.visited = <<0, 2, 1>>
    /\ call.pq = <<>>

\* ------------------------------------------------------ dfs, ud_graph.py
RECURSIVE ud_dfs_loop(_, _)
\* while len(next_vertex) != 0, on the locals result, next_vertex and vertex
\* and the graph (edges.sort() sorts the stored neighbour list).
ud_dfs_loop(st, v_end) ==
    IF Len(st.next_vertex) = 0 THEN st
    ELSE LET vertex == st.vertex
             result == IF ~InList(vertex, st.result)
                       THEN Append(st.result, vertex) ELSE st.result
             edges == Sort(Get(st.adj, vertex))
             fresh == SelectSeq(edges, LAMBDA edge : ~InList(edge, result))
         IN IF v_end # <<>> /\ vertex = v_end[1]
            THEN [st EXCEPT !.result = result]
            ELSE IF Len(fresh) > 0
            THEN ud_dfs_loop([adj |-> Put(st.adj, vertex, edges),
                              result |-> result,
                              next_vertex |-> Append(st.next_vertex, vertex),
                              vertex |-> fresh[1]], v_end)
            ELSE ud_dfs_loop([adj |-> Put(st.adj, vertex, edges),
                              result |-> result,
                              next_vertex |-> SubSeq(st.next_vertex, 1,
                                                     Len(st.next_vertex) - 1),
                              vertex |-> st.next_vertex[Len(st.next_vertex)]], v_end)

ud_dfs(adj, v_start, v_end) ==
    IF ~HasKey(adj, v_start)
    THEN [adj |-> adj, result |-> <<>>, next_vertex |-> <<>>, vertex |-> v_start]
    ELSE ud_dfs_loop([adj |-> adj, result |-> <<>>, next_vertex |-> <<v_start>>,
                      vertex |-> v_start], v_end)

Ud_dfs ==
    LET r == ud_dfs(adj_list, call.args[1], call.args[2])
    IN /\ call.op = "dfs" /\ ret.exc = "pending"
       /\ adj_list' = r.adj
       /\ ret' = [exc |-> "", val |-> r.result]
       /\ UNCHANGED <<dvars, call>>

\* ----------------------------------------------- specification SpecTwin
\* Graphs over the labels 0..TravMaxLabel of at most TwinMaxEdges edges,
\* built by add_edge and remove_edge, which the two classes share line for
\* line (called with the smaller label first), and dfs called on them: the
\* recursive dfs of undirected_graph_search_algos.py or the explicit-stack
\* dfs of ud_graph.py, with a start that may be absent and with no end or
\* any label as end.  The call records which class it was made on (impl)
\* and the graph it was made on (before).
Twin_call(impl, v_start, v_end) ==
    /\ Idle
    /\ call' = [op |-> "dfs", args |-> <<v_start, v_end>>,
                impl |-> impl, before |-> adj_list]
    /\ ret' = [exc |-> "pending", val |-> <<>>]
    /\ UNCHANGED gvars

\* add_edge(u, v) keeps the graph within TwinMaxEdges edges.
WithinTwinEdges(u, v) ==
    u = v \/ Cardinality(EdgeSet(adj_list) \cup {{u, v}}) <= TwinMaxEdges

\* The call in progress was made on the class impl.
CalledOn(impl) == call.op = "dfs" /\ ret.exc = "pending" /\ call.impl = impl

NextTwin ==
    \/ \E u \in TravLabels, v \in TravLabels :
          Idle /\ u < v /\ WithinTwinEdges(u, v) /\ U_add_edge(u, v)
    \/ \E v \in TravLabels, u \in TravLabels : Idle /\ v < u /\ U_remove_edge(v, u)
    \/ \E v_start \in TravLabels, v_end \in UEnds :
          Twin_call("recursive", v_start, v_end)
    \/ CalledOn("recursive") /\ U_dfs
    \/ \E v_start \in TravLabels, v_end \in UEnds :
          Twin_call("stack", v_start, v_end)
    \/ CalledOn("stack") /\ Ud_dfs

SpecTwin == InitUG /\ [][NextTwin]_vars

\* The outcome of the recursive dfs and the list of the explicit-stack dfs
\* on the graph the returned call was made on.
RecursiveOutcome == u_dfs(call.before, call.args[1], call.args[2])

StackResult == ud_dfs(call.before, call.args[1], call.args[2]).result

\* C22: for every undirected graph, every start and every end, the
\* explicit-stack dfs of ud_graph.py returns exactly the list that the
\* recursive dfs of undirected_graph_search_algos.py returns.
C22_DfsTwins ==
    Returned("dfs") =>
        /\ ret.exc = ""
        /\ RecursiveOutcome.exc = ""
        /\ RecursiveOutcome.visited = StackResult

\* C22 for the calls with no end or an end other than the label "": there
\* the two return the same list.
DfsTwinsTruthyEnd ==
    (Returned("dfs") /\ call.args[2] # <<0>>) =>
        /\ ret.exc = ""
        /\ RecursiveOutcome.exc = ""
        /\ RecursiveOutcome.visited = StackResult
        /\ ret.val = StackResult

\* With the end "" and a start in the graph the explicit-stack dfs returns
\* the preorder up to "" while the recursive dfs returns [] from a start
\* without neighbours and raises RecursionError from any other.
DfsTwinsEmptyEnd ==
    (Returned("dfs") /\ call.args[2] = <<0>> /\ HasKey(call.before, call.args[1])) =>
        /\ Len(StackResult) > 0
        /\ StackResult[1] = call.args[1]
        /\ IF Len(Get(call.before, call.args[1])) = 0
           THEN RecursiveOutcome.exc = "" /\ RecursiveOutcome.visited = <<>>
           ELSE RecursiveOutcome.exc = "RecursionError"

\* Both were called with an end on a graph where the end stops the search
\* before every vertex is visited, and agreed.
DfsTwinsStopAtEnd ==
    /\ Returned("dfs") /\ call.impl = "stack"
    /\ call.args[2] # <<>> /\ call.args[2] # <<0>>
    /\ Len(ret.val) = 3
    /\ Len(call.before) = 4
    /\ ret.val[3] = call.args[2][1]
    /\ RecursiveOutcome.visited = ret.val

\* ------------------------------------- the queries not modelled above
\* get_edges of DirectedGraph: for src in range(v_count): for dst in
\* range(v_count), from the cell (src, dst) on
RECURSIVE get_edges_loop(_, _, _, _, _)
get_edges_loop(m, n, result, src, dst) ==
    IF src >= n THEN result
    ELSE IF dst >= n THEN get_edges_loop(m, n, result, src + 1, 0)
    ELSE LET weight == Cell(m, src, dst)
         IN get_edges_loop(m, n,
                           IF weight # 0 THEN Append(result, <<src, dst, weight>>)
                           ELSE result,
                           src, dst + 1)

get_edges(m, n) == get_edges_loop(m, n, <<>>, 0, 0)

D_get_vertices ==
    /\ call.op = "get_vertices" /\ ret.exc = "pending"
    /\ ret' = [exc |-> "", val |-> get_vertices(v_count)]
    /\ UNCHANGED <<gvars, call>>

D_get_edges ==
    /\ call.op = "get_edges" /\ ret.exc = "pending"
    /\ ret' = [exc |-> "", val |-> get_edges(adj_matrix, v_count)]
    /\ UNCHANGED <<gvars, call>>

RECURSIVE u_is_valid_path_loop(_, _, _, _)
\* is_valid_path of UndirectedGraph: for i in range(path_size - 1), from i
\* on (i counts from 0), and the return after the loop
u_is_valid_path_loop(adj, path, result, i) ==
    IF i >= Len(path) - 1 THEN result
    ELSE IF ~HasKey(adj, path[i + 1]) THEN FALSE
    ELSE u_is_valid_path_loop(adj, path,
                              IF ~InList(path[i + 2], Get(adj, path[i + 1]))
                              THEN FALSE ELSE result,
                              i + 1)

u_is_valid_path(adj, path) ==
    IF Len(path) = 0 THEN TRUE
    ELSE u_is_valid_path_loop(adj, path,
                              IF Len(path) = 1 /\ ~HasKey(adj, path[1])
                              THEN FALSE ELSE TRUE,
                              0)

U_get_vertices ==
    /\ call.op = "get_vertices" /\ ret.exc = "pending"
    /\ ret' = [exc |-> "", val |-> Keys(adj_list)]
    /\ UNCHANGED <<gvars, call>>

U_is_valid_path ==
    /\ call.op = "is_valid_path" /\ ret.exc = "pending"
    /\ ret' = [exc |-> "", val |-> u_is_valid_path(adj_list, call.args[1])]
    /\ UNCHANGED <<gvars, call>>

\* -------------------------------------------- specification SpecQueries
\* One graph of either class, built by its mutators (a DirectedGraph of at
\* most QryMaxV vertices, an UndirectedGraph over the labels 0..MaxLabel),
\* and every query of the class called on it: starts, ends and path
\* elements may be absent from the graph.  The call records the class it
\* was made on and the graph as it was when the call was made (before).
Query(class, op, args) ==
    /\ Idle
    /\ call' = [op |-> op, args |-> args, class |-> class,
                before |-> [v_count |-> v_count, adj_matrix |-> adj_matrix,
                            adj_list |-> adj_list]]
    /\ ret' = [exc |-> "pending", val |-> <<>>]
    /\ UNCHANGED gvars

\* The query in progress was called on a graph of the class.
QueryOn(class) == ret.exc = "pending" /\ call.class = class

QLabelEnds == {<<>>} \cup {<<e>> : e \in Labels}

D_Mutators ==
    \/ v_count < QryMaxV /\ D_add_vertex
    \/ \E src \in 0..v_count - 1, dst \in 0..v_count - 1 : D_add_edge(src, dst, 1)
    \/ \E src \in 0..v_count - 1, dst \in 0..v_count - 1 : D_remove_edge(src, dst)

D_Queries ==
    \/ Query("DirectedGraph", "get_vertices", <<>>)
    \/ Query("DirectedGraph", "get_edges", <<>>)
    \/ \E path \in ListsOver(-1..v_count, QryMaxLen) :
          Query("DirectedGraph", "is_valid_path", <<path>>)
    \/ \E v_start \in -1..v_count, v_end \in Ends(v_count) :
          Query("DirectedGraph", "dfs", <<v_start, v_end>>)
    \/ \E v_start \in -1..v_count, v_end \in Ends(v_count) :
          Query("DirectedGraph", "bfs", <<v_start, v_end>>)
    \/ Query("DirectedGraph", "has_cycle", <<>>)
    \/ \E src \in -1..v_count : Query("DirectedGraph", "dijkstra", <<src>>)

D_Returns ==
    \/ D_get_vertices
    \/ D_get_edges
    \/ D_is_valid_path
    \/ D_dfs
    \/ D_bfs
    \/ D_has_cycle
    \/ D_dijkstra

U_Mutators ==
    \/ \E v \in Labels : U_add_vertex(v)
    \/ \E u \in Labels, v \in Labels : U_add_edge(u, v)
    \/ \E v \in Labels, u \in Labels : U_remove_edge(v, u)
    \/ \E v \in Labels : U_remove_vertex(v)

U_Queries ==
    \/ Query("UndirectedGraph", "get_vertices", <<>>)
    \/ Query("UndirectedGraph", "get_edges", <<>>)
    \/ \E path \in ListsOver(Labels, QryMaxLen) :
          Query("UndirectedGraph", "is_valid_path", <<path>>)
    \/ \E v_start \in Labels, v_end \in QLabelEnds :
          Query("UndirectedGraph", "dfs", <<v_start, v_end>>)
    \/ \E v_start \in Labels, v_end \in QLabelEnds :
          Query("UndirectedGraph", "bfs", <<v_start, v_end>>)
    \/ Query("UndirectedGraph", "count_connected_components", <<>>)
    \/ Query("UndirectedGraph", "has_cycle", <<>>)

U_Returns ==
    \/ U_get_vertices
    \/ U_get_edges
    \/ U_is_valid_path
    \/ U_dfs
    \/ U_bfs
    \/ U_count_connected_components
    \/ U_has_cycle

NextQueries ==
    \/ Idle /\ adj_list = <<>> /\ D_Mutators
    \/ adj_list = <<>> /\ D_Queries
    \/ QueryOn("DirectedGraph") /\ D_Returns
    \/ Idle /\ v_count = 0 /\ U_Mutators
    \/ v_count = 0 /\ U_Queries
    \/ QueryOn("UndirectedGraph") /\ U_Returns

SpecQueries == InitUG /\ [][NextQueries]_vars

\* A query returns or raises in this step.
QueryEnds == ret.exc = "pending" /\ ret'.exc # "pending"

\* C23: no query changes the graph.  The queries of DirectedGraph leave
\* v_count and every cell of adj_matrix as they are.  Those of
\* UndirectedGraph leave the vertices and the neighbours of every vertex as
\* they are; the only thing one may alter is the stored order of a
\* neighbour list, which dfs and bfs (and count_connected_components
\* through the dfs it calls) sort ascending.
C23_QueriesFrame ==
    [][QueryEnds =>
         /\ v_count' = v_count
         /\ adj_matrix' = adj_matrix
         /\ Keys(adj_list') = Keys(adj_list)
         /\ \A i \in 1..Len(adj_list) :
               /\ Elements(adj_list'[i][2]) = Elements(adj_list[i][2])
               /\ Len(adj_list'[i][2]) = Len(adj_list[i][2])
               /\ adj_list'[i][2] # adj_list[i][2] =>
                     /\ call.op \in {"dfs", "bfs", "count_connected_components"}
                     /\ adj_list'[i][2] = Sort(adj_list[i][2])]_vars

\* C23 on the returned call: the graph is the graph the call was made on,
\* up to the order of the neighbour lists.
QueriesFrameSnapshot ==
    (call.op \notin {"init"} /\ "before" \in DOMAIN call /\ ret.exc # "pending") =>
        /\ v_count = call.before.v_count
        /\ adj_matrix = call.before.adj_matrix
        /\ Keys(adj_list) = Keys(call.before.adj_list)
        /\ \A i \in 1..Len(adj_list) :
              Elements(adj_list[i][2]) = Elements(call.before.adj_list[i][2])

\* A dfs of the undirected graph has returned three vertices and has
\* changed the stored order of a neighbour list.
C23_Witness ==
    /\ call.op = "dfs" /\ ret.exc = ""
    /\ call.class = "UndirectedGraph"
    /\ Len(ret.val) = 3
    /\ adj_list # call.before.adj_list

\* A dijkstra of the directed graph has returned on a graph with an edge.
QueriesFrameDijkstra ==
    /\ call.op = "dijkstra" /\ ret.exc = ""
    /\ v_count = 3
    /\ ret.val = <<1, 0, 1>>

====
